---------------------------- MODULE Spec2Model ----------------------------
(***************************************************************************)
(* Bergfrid: RSS feed -> multi-platform publisher.                         *)
(*                                                                         *)
(* The module models the delivery orchestration of src/main.py             *)
(* (bergfrid_watcher, _seed_state_from_entries,                            *)
(* _catchup_missing_platforms), the ledger of src/core/state.py            *)
(* (StateStore), the backlog computation of src/core/rss.py and the        *)
(* health tracker of src/core/monitoring.py (HealthMonitor).               *)
(*                                                                         *)
(* An article is represented by its identifier, a positive integer that    *)
(* grows with publication time; a feed snapshot is a sequence of           *)
(* identifiers, newest first, as feedparser returns the entries.           *)
(* One action of the orchestrator runs from one suspension point           *)
(* (an awaited publish call) to the next.                                  *)
(***************************************************************************)
EXTENDS Integers, Sequences, FiniteSets, TLC

(***************************************************************************)
(* Bounds of the model (not values of the program).                        *)
(***************************************************************************)
\* number of articles the site ever publishes
MaxId == 3
\* number of entries the feed document holds (older ones fall off)
FeedLen == 3
\* number of watcher ticks explored
MaxTicks == 3
\* StateStore(sent_ring_max=...): size of the per-platform sent ring
sent_ring_max == 2
\* MAX_BACKLOG_POSTS_PER_TICK as configured for the explored runs: larger than
\* the ring, so that one tick can append more ids than a sent list holds
MAX_BACKLOG_POSTS_PER_TICK == 3
\* HealthMonitor(alert_threshold=...)
alert_threshold == 2
\* longest sent list of a hand-written ledger given to save
MaxListLen == 4
\* number of record_success / record_failure calls explored on a monitor
MaxCalls == 6
\* number of sent_add calls explored on a ledger
MaxAdds == 3
\* consecutive failures explored when the cooldown is evaluated
MaxFailures == 32
\* number of poll intervals waited when the cooldown is evaluated
MaxWaits == 32
\* number of tasks besides the watcher that hold a copy of the ledger at
\* the same time
MaxInFlight == 2

(***************************************************************************)
(* Program constants.                                                      *)
(***************************************************************************)
CATCHUP_WINDOW == 5
RSS_POLL_MINUTES == 2
cooldown_max_minutes == 60

None == 0
NoTime == -1

Ids == 1..MaxId

\* StateStore.PLATFORMS
PLATFORMS == {"discord", "telegram", "twitter", "mastodon", "bluesky"}

\* The optional publishers the process constructed at start-up, in the
\* insertion order of the dict (here: only Mastodon has credentials).
optional_publishers == <<"mastodon">>

\* The publishers dict of the dispatch loop and of the catch-up pass:
\* discord, telegram, then the optional ones.
publishers == <<"discord", "telegram">> \o optional_publishers

NPub == Len(publishers)

PublisherNames == {publishers[j] : j \in 1..NPub}

\* Values of the "enabled" list of publish_targets.json explored.
EnabledSets ==
    { {"discord", "telegram"},
      {"discord", "mastodon"},
      {"discord", "telegram", "twitter"} }

Min(a, b) == IF a < b THEN a ELSE b

SeqToSet(s) == {s[i] : i \in 1..Len(s)}

(***************************************************************************)
(* core/state.py                                                           *)
(***************************************************************************)

\* Python's lst[-n:]: the last n elements, and the whole list when n = 0.
TailSlice(lst, n) ==
    IF n = 0 \/ n >= Len(lst) THEN lst
    ELSE SubSeq(lst, Len(lst) - n + 1, Len(lst))

empty_state ==
    [last_id |-> None, sent |-> [p \in PLATFORMS |-> <<>>]]

sent_has(st, platform, entry_id) ==
    \E i \in 1..Len(st.sent[platform]) : st.sent[platform][i] = entry_id

sent_add(st, platform, entry_id) ==
    LET lst == IF sent_has(st, platform, entry_id)
               THEN st.sent[platform]
               ELSE Append(st.sent[platform], entry_id)
    IN [st EXCEPT !.sent[platform] =
            IF Len(lst) > sent_ring_max THEN TailSlice(lst, sent_ring_max) ELSE lst]

\* a save that keeps the oldest entries of a list that is too long
save_keeps_oldest(st) ==
    [st EXCEPT !.sent = [k \in PLATFORMS |->
        IF Len(st.sent[k]) > sent_ring_max
        THEN SubSeq(st.sent[k], 1, sent_ring_max)
        ELSE st.sent[k]]]

\* StateStore.save: the ledger as truncated and written (the in-memory
\* dict is truncated in place, so the same value is kept in memory).
save(st) ==
    [st EXCEPT !.sent = [k \in PLATFORMS |->
        IF Len(st.sent[k]) > sent_ring_max
        THEN TailSlice(st.sent[k], sent_ring_max)
        ELSE st.sent[k]]]

(***************************************************************************)
(* core/rss.py                                                             *)
(***************************************************************************)

\* a backlog that also takes the entry the cursor names
RECURSIVE feed_to_backlog_inclusive(_, _)
feed_to_backlog_inclusive(ents, last_seen) ==
    IF ents = <<>> THEN <<>>
    ELSE IF Head(ents) = last_seen THEN <<Head(ents)>>
    ELSE <<Head(ents)>> \o feed_to_backlog_inclusive(Tail(ents), last_seen)

RECURSIVE feed_to_backlog(_, _)
feed_to_backlog(ents, last_seen) ==
    IF ents = <<>> THEN <<>>
    ELSE IF Head(ents) = last_seen THEN <<>>
    ELSE <<Head(ents)>> \o feed_to_backlog(Tail(ents), last_seen)

\* a backlog left in feed order, newest first
NotReversed(s) == s

Reversed(s) == [i \in 1..Len(s) |-> s[Len(s) + 1 - i]]

(***************************************************************************)
(* core/monitoring.py                                                      *)
(***************************************************************************)

empty_health ==
    [failures |-> [p \in PLATFORMS |-> 0],
     alerted  |-> [p \in PLATFORMS |-> FALSE],
     last     |-> [p \in PLATFORMS |-> NoTime]]

\* a record_success that leaves the alerted flag as it is
record_success_keeps_alert(h, platform) ==
    [h EXCEPT !.failures[platform] = 0,
              !.last[platform] = NoTime]

record_success(h, platform) ==
    [h EXCEPT !.failures[platform] = 0,
              !.alerted[platform] = FALSE,
              !.last[platform] = NoTime]

\* a record_failure that fires on every call at or above the threshold
record_failure_every_time(h, platform, t) ==
    LET count == h.failures[platform] + 1
        fire  == count >= alert_threshold
    IN [h   |-> [h EXCEPT !.failures[platform] = count,
                          !.last[platform] = t,
                          !.alerted[platform] = IF fire THEN TRUE ELSE @],
        ret |-> fire]

\* a monitor that keeps one failure count for all the platforms
record_failure_one_count(h, platform, t) ==
    LET count == h.failures[platform] + 1
        fire  == count >= alert_threshold /\ ~h.alerted[platform]
    IN [h   |-> [h EXCEPT !.failures = [q \in PLATFORMS |-> count],
                          !.last[platform] = t,
                          !.alerted[platform] = IF fire THEN TRUE ELSE @],
        ret |-> fire]

\* The monitor after record_failure and the value the call returns.
record_failure(h, platform, t) ==
    LET count == h.failures[platform] + 1
        fire  == count >= alert_threshold /\ ~h.alerted[platform]
    IN [h   |-> [h EXCEPT !.failures[platform] = count,
                          !.last[platform] = t,
                          !.alerted[platform] = IF fire THEN TRUE ELSE @],
        ret |-> fire]

\* a cooldown without the cap
cooldown_sec_uncapped(failures) == failures * 120

cooldown_sec(failures) == Min(failures * 120, cooldown_max_minutes * 60)

is_in_cooldown(h, platform, t) ==
    IF h.failures[platform] < alert_threshold THEN FALSE
    ELSE IF h.last[platform] = NoTime THEN FALSE
    ELSE (t - h.last[platform]) < cooldown_sec(h.failures[platform])

get_failures(h, platform) == h.failures[platform]

(***************************************************************************)
(* main.py: seeding                                                        *)
(***************************************************************************)

RECURSIVE SeedPlatform(_, _, _)
\* the inner sent_add calls of the seed for one platform, entry by entry
SeedPlatform(st, platform, ents) ==
    IF ents = <<>> THEN st
    ELSE SeedPlatform(sent_add(st, platform, Head(ents)), platform, Tail(ents))

RECURSIVE SeedAll(_, _, _)
SeedAll(st, active, ents) ==
    IF active = {} THEN st
    ELSE LET p == CHOOSE q \in active : TRUE
         IN SeedAll(SeedPlatform(st, p, ents), active \ {p}, ents)

\* a seeding that sets the cursor to the oldest entry of the feed
seed_cursor_oldest(ents, st, en) ==
    LET active == PublisherNames \cap en
        seeded == SeedAll(st, active, ents)
    IN save(IF ents # <<>> THEN [seeded EXCEPT !.last_id = ents[Len(ents)]]
                           ELSE seeded)

seed_state_from_entries(ents, st, en) ==
    LET active == PublisherNames \cap en
        seeded == SeedAll(st, active, ents)
    IN save(IF ents # <<>> THEN [seeded EXCEPT !.last_id = ents[1]] ELSE seeded)

(***************************************************************************)
(* State                                                                   *)
(***************************************************************************)
VARIABLES
    feed,          \* the feed document on the site, newest entry first
    issued,        \* number of articles the site has published so far
    gist,          \* the document GistSync.pull reads, NoGist when no Gist is set
    otherTask,     \* the copies of the ledger held by the tasks besides the watcher that are between their load and their save
    disk,          \* the bytes of the ledger file and of its .tmp file
    retry,         \* the TelegramPublisher.publish call in progress
    dates,         \* today, and the date keys of the ledger: in the file and in each task's copy
    cache,         \* state["etag"] and state["modified"] of the ledger file
    tokens,        \* state["etag"] and state["modified"] of the ledger dict of the running tick
    watcher,       \* the tasks.Loop bergfrid_watcher and the on_ready handlers
    file,          \* the ledger file (bergfrid_state.json)
    now,           \* time.monotonic(), in seconds
    health,        \* the HealthMonitor of the process
    lastRet,       \* value returned by the latest record_failure call
    pc,            \* "idle", or where the running tick is suspended
    state,         \* the ledger dict of the running tick
    enabled,       \* the enabled set the running tick loaded
    entries,       \* the feed snapshot of the running tick
    backlog,       \* reversed(backlog) of the running tick: oldest first
    idx,           \* index of the article being handled
    plat,          \* index in publishers of the awaited publish call
    all_ok,        \* all_ok of the article being handled
    cursorAtStart, \* history: last_id when the tick started
    sentAtStart,   \* history: the sent lists when the tick started
    failed,        \* history: per platform, ids whose publish failed this tick
    added,         \* history: per platform, ids marked sent this tick
    lastPartial,   \* history: backlog and index at which the previous tick stopped
                   \* on a partial publication (some sent, some failed)
    markedAtCrash, \* history: per platform, ids marked sent by the tick that the
                   \* process crashed in, kept until the next tick returns
    snapshot,      \* history: the entries the latest tick got from the fetch
    result,        \* history: "ok" or "failed", the latest publish result of the tick
    ncalls,        \* number of monitor calls made (monitor-only runs)
    nalerts        \* history: per platform, how often record_failure returned true

vars == <<feed, issued, gist, tokens, retry, dates, disk, otherTask, cache, watcher, file, now, health, lastRet, pc, state, enabled, entries,
          backlog, idx, plat, all_ok, cursorAtStart, sentAtStart, failed,
          added, lastPartial, markedAtCrash, snapshot, result, ncalls, nalerts>>

tickLocals == <<enabled, entries, backlog, all_ok>>
history == <<cursorAtStart, sentAtStart, failed, added, snapshot, result>>

\* a path with no file; neither the ledger file nor its .tmp file exists
AbsentFile == [exists |-> FALSE, doc |-> empty_state, written |-> 0]
NoDisk == [path |-> AbsentFile, tmp |-> AbsentFile]

\* no publish call of the Telegram publisher is in progress
NoRetry == [attempt |-> 0, posts |-> 0, responses |-> <<>>, msg_id |-> "unset"]

\* a ledger without last_article_published_date and nightly_promo_sent_date
NoDateKeys == [published |-> None, promo |-> None]

\* day 1, no date key in the ledger file nor in the watcher's ledger;
\* dispatched: the dates of the promo dispatches so far; marked: the dates on
\* which mark_article_published_today has run
NoDates == [today |-> 1, file |-> NoDateKeys, watcher |-> NoDateKeys,
            dispatched |-> <<>>, marked |-> {}]

\* GITHUB_GIST_TOKEN / GITHUB_GIST_ID are not set: StateStore._gist is None
NoGist == [kind |-> "unset"]

\* the ledger has no "etag" and no "modified" key, and the site sends neither
\* an ETag nor a Last-Modified header
NoTokens == [etag |-> None, modified |-> None]

\* no task besides the watcher holds a copy of the ledger
NoTask == <<>>

\* number of ready events (the first connection and the reconnections)
MaxReady == 2

\* bergfrid_watcher before on_ready has run: no task, no tick in progress;
\* no on_ready handler has been called
NoWatcher ==
    [task |-> FALSE, running |-> 0, next |-> 0,
     ready |-> [h \in 1..MaxReady |-> "none"]]

NoSets == [p \in PLATFORMS |-> {}]
NoPartial == [backlog |-> <<>>, idx |-> 0]

\* the values every run starts with, the ledger in memory and pc left out
InitRest ==
    /\ feed = <<>>
    /\ issued = 0
    /\ gist = NoGist
    /\ otherTask = NoTask
    /\ disk = NoDisk
    /\ tokens = NoTokens
    /\ retry = NoRetry
    /\ dates = NoDates
    /\ watcher = NoWatcher
    /\ cache = NoTokens
    /\ file = empty_state
    /\ now = 0
    /\ health = empty_health
    /\ lastRet = FALSE
    /\ enabled = {}
    /\ entries = <<>>
    /\ backlog = <<>>
    /\ idx = 0
    /\ plat = 0
    /\ all_ok = TRUE
    /\ cursorAtStart = None
    /\ sentAtStart = empty_state.sent
    /\ failed = NoSets
    /\ added = NoSets
    /\ lastPartial = NoPartial
    /\ markedAtCrash = NoSets
    /\ snapshot = <<>>
    /\ result = "none"
    /\ ncalls = 0
    /\ nalerts = [p \in PLATFORMS |-> 0]

\* the process starts: no ledger file, no feed entry, a fresh monitor
Init ==
    /\ InitRest
    /\ pc = "idle"
    /\ state = empty_state

(***************************************************************************)
(* The site: the feed document the fetch of a tick reads                   *)
(***************************************************************************)

\* the site publishes an article: it becomes the first entry of the feed,
\* and the oldest entry falls off a full feed document
NewArticle ==
    /\ pc = "idle"
    /\ issued < MaxId
    /\ issued' = issued + 1
    /\ feed' = SubSeq(<<issued + 1>> \o feed, 1, Min(Len(feed) + 1, FeedLen))
    /\ lastPartial' = NoPartial
    /\ UNCHANGED markedAtCrash
    /\ UNCHANGED <<gist, tokens, retry, dates, disk, otherTask, watcher, cache, file, now, health, lastRet, pc, state, idx, plat, ncalls,
                   nalerts>>
    /\ UNCHANGED tickLocals
    /\ UNCHANGED history

\* the site withdraws its latest article: the entry leaves the feed
RetractArticle ==
    /\ pc = "idle"
    /\ feed # <<>>
    /\ feed' = Tail(feed)
    /\ lastPartial' = NoPartial
    /\ UNCHANGED markedAtCrash
    /\ UNCHANGED <<issued, gist, tokens, retry, dates, disk, otherTask, watcher, cache, file, now, health, lastRet, pc, state, idx, plat,
                   ncalls, nalerts>>
    /\ UNCHANGED tickLocals
    /\ UNCHANGED history

(***************************************************************************)
(* main.py: control of the tick between two awaited publish calls          *)
(***************************************************************************)

\* a dispatch that does not look at the sent list
DispatchEligibleNoLedger(st, en, eid, j) == publishers[j] \in en

\* dispatch loop, lines 545/563/582: the publish call is made
DispatchEligible(st, en, eid, j) ==
    publishers[j] \in en /\ ~sent_has(st, publishers[j], eid)

\* first platform from index `from` on whose publish is called for eid;
\* NPub + 1 when none is left (the code is then at line 599)
NextPlat(st, en, eid, from) ==
    LET c == {j \in from..NPub : DispatchEligible(st, en, eid, j)}
    IN IF c = {} THEN NPub + 1 ELSE CHOOSE j \in c : \A k \in c : j <= k

\* a catch-up that does not look at the sent list of the platform itself
CatchupEligibleResend(st, en, eid, platform) ==
    /\ platform \in en
    /\ \E other \in PublisherNames \ {platform} : sent_has(st, other, eid)

\* _catchup_missing_platforms, lines 638-649: the publish call is made
CatchupEligible(st, en, eid, platform) ==
    /\ platform \in en
    /\ ~sent_has(st, platform, eid)
    /\ \E other \in PublisherNames \ {platform} : sent_has(st, other, eid)

\* a catch-up pass over the whole feed
WindowLenWholeFeed(ents) == Len(ents)

WindowLen(ents) == Min(CATCHUP_WINDOW, Len(ents))
EntryOf(p) == ((p - 1) \div NPub) + 1
PlatOf(p) == ((p - 1) % NPub) + 1
LinearPos(i, j) == (i - 1) * NPub + j

\* first (entry, platform) pair of the catch-up loops, from the linear
\* position `from` on, for which publish is called; 0 when the loops end
NextCatchup(st, en, ents, from) ==
    LET c == {p \in from..(WindowLen(ents) * NPub) :
                 CatchupEligible(st, en, ents[EntryOf(p)], publishers[PlatOf(p)])}
    IN IF c = {} THEN 0 ELSE CHOOSE p \in c : \A q \in c : p <= q

\* history: the stop of the previous tick is forgotten when a tick returns
KeepPartial == lastPartial' = IF pc' = "idle" THEN NoPartial ELSE lastPartial

\* what the crashed tick marked is forgotten when the tick after it returns
KeepMarked == markedAtCrash' = IF pc' = "idle" THEN NoSets ELSE markedAtCrash

\* the tick returns
Return ==
    /\ pc' = "idle"
    /\ idx' = 0
    /\ plat' = 0
    /\ enabled' = {}
    /\ entries' = <<>>
    /\ backlog' = <<>>
    /\ all_ok' = TRUE

\* the tick runs the catch-up loops from linear position `from` up to the
\* next publish call, or returns
GoCatchup(st, en, ents, from) ==
    LET p == NextCatchup(st, en, ents, from)
    IN IF p = 0 THEN Return
       ELSE /\ pc' = "catchup"
            /\ idx' = EntryOf(p)
            /\ plat' = PlatOf(p)
            /\ enabled' = en
            /\ entries' = ents
            /\ backlog' = <<>>
            /\ all_ok' = TRUE

\* the tick starts the body of the dispatch loop for article bl[i]
GoDispatch(st, en, ents, bl, i) ==
    /\ pc' = "dispatch"
    /\ idx' = i
    /\ plat' = NextPlat(st, en, bl[i], 1)
    /\ enabled' = en
    /\ entries' = ents
    /\ backlog' = bl
    /\ all_ok' = TRUE

(***************************************************************************)
(* core/rss.py: the fetch, seen on the cache tokens of the ledger          *)
(***************************************************************************)

\* the values of an ETag or Last-Modified header, None when it is absent
TokenValues == {None, 1, 2}
Tokens == [etag : TokenValues, modified : TokenValues]

\* the headers the site answers a fetch with: none, or an ETag alone
SiteTokens == {NoTokens, [etag |-> 1, modified |-> None]}

\* what a fetch that brings no entry does: wait_for raises TimeoutError,
\* feedparser raises, or the answer has no entry (an empty feed, a 304, a
\* document that is no feed); "entries" is the fetch that brings the feed
FetchOutcomes == {"timeout", "error", "no_entries"}

\* parse_rss_with_cache: the etag and modified of the ledger after the fetch;
\* `answer` holds the tokens of the parsed answer
parse_rss_with_cache(outcome, answer, c) ==
    IF outcome \in {"timeout", "error"}
    THEN c
    ELSE [etag |-> IF answer.etag # None THEN answer.etag ELSE c.etag,
          modified |-> IF answer.modified # None THEN answer.modified
                       ELSE c.modified]

\* the tokens of the object parse_rss_with_cache works on: feedparser.parse("")
\* has none
AnswerTokens(outcome) ==
    IF outcome \in {"timeout", "error"} THEN {NoTokens} ELSE SiteTokens

(***************************************************************************)
(* main.py: the tick from its start to its first awaited publish call      *)
(***************************************************************************)

\* state_store.save(state) of the watcher, seen on the date keys: the file
\* gets the keys of the watcher's ledger dict
SavedDates(dt) == [dt EXCEPT !.file = dt.watcher]

\* mark_article_published_today on the copy of the ledger `keys`
mark_article_published_today(keys, today) ==
    [keys EXCEPT !.published = today]

\* lines 551-553 and 654-656: mark_article_published_today(state), then
\* state_store.save(state), seen on the date keys
MarkedDates(dt) ==
    LET copy == mark_article_published_today(dt.watcher, dt.today)
    IN [dt EXCEPT !.watcher = copy, !.file = copy, !.marked = @ \cup {dt.today}]

\* bergfrid_watcher, lines 499-505: the tick reads the enabled set, loads
\* the ledger and awaits the fetch
TickLoadsAt(en, t) ==
    /\ pc = "idle"
    /\ now' = t
    /\ pc' = "fetching"
    /\ enabled' = en
    /\ state' = file
    /\ tokens' = cache
    /\ dates' = [dates EXCEPT !.watcher = dates.file]
    /\ cursorAtStart' = file.last_id
    /\ sentAtStart' = file.sent
    /\ snapshot' = <<>>
    /\ result' = "none"
    /\ UNCHANGED <<feed, issued, gist, retry, disk, otherTask, watcher, cache, file, health, lastRet, entries, backlog, idx, plat, all_ok, failed, added, lastPartial, markedAtCrash, ncalls, nalerts>>

\* the tick that starts one poll interval after the one before, as long as
\* the run has ticks left
TickLoadsWith(en) ==
    /\ now < MaxTicks * RSS_POLL_MINUTES * 60
    /\ TickLoadsAt(en, now + RSS_POLL_MINUTES * 60)

TickLoads == \E en \in EnabledSets : TickLoadsWith(en)

\* lines 505-508, common to every way the fetch returns: parse_rss_with_cache
\* stores the tokens of the answer in the ledger dict of the tick, and
\* state_store.save(state) writes that dict, tokens and date keys included
TickFetched(outcome, answer) ==
    /\ pc = "fetching"
    /\ tokens' = parse_rss_with_cache(outcome, answer, tokens)
    /\ cache' = parse_rss_with_cache(outcome, answer, tokens)
    /\ dates' = SavedDates(dates)
    /\ failed' = NoSets
    /\ added' = NoSets
    /\ UNCHANGED <<feed, issued, gist, retry, disk, otherTask, watcher, now, health, lastRet, ncalls, nalerts>>
    /\ UNCHANGED <<cursorAtStart, sentAtStart>>

\* lines 510-512: the fetch failed or timed out, or the feed has no entry
TickNoEntries ==
    /\ \E outcome \in FetchOutcomes : \E answer \in AnswerTokens(outcome) :
          /\ TickFetched(outcome, answer)
          /\ result' = outcome
    /\ snapshot' = <<>>
    /\ state' = save(state)
    /\ file' = save(state)
    /\ Return
    /\ KeepPartial
    /\ KeepMarked

\* lines 505-508 when the fetch brings the entries of the feed document
TickFetchedEntries ==
    /\ \E answer \in AnswerTokens("entries") : TickFetched("entries", answer)
    /\ feed # <<>>
    /\ snapshot' = feed
    /\ UNCHANGED result

\* lines 514-518: empty ledger, seed without publishing
TickColdStart ==
    /\ TickFetchedEntries
    /\ state.last_id = None
    /\ state' = seed_state_from_entries(feed, save(state), enabled)
    /\ file' = seed_state_from_entries(feed, save(state), enabled)
    /\ Return
    /\ KeepPartial
    /\ KeepMarked

\* lines 520-526: last_id not found in the feed, seed without publishing
TickCursorNotFound ==
    /\ TickFetchedEntries
    /\ state.last_id # None
    /\ LET bl == feed_to_backlog(feed, state.last_id)
       IN bl # <<>> /\ Len(bl) = Len(feed)
    /\ state' = seed_state_from_entries(feed, save(state), enabled)
    /\ file' = seed_state_from_entries(feed, save(state), enabled)
    /\ Return
    /\ KeepPartial
    /\ KeepMarked

\* lines 528-530: nothing new, catch-up only
TickNoBacklog ==
    /\ TickFetchedEntries
    /\ state.last_id # None
    /\ feed_to_backlog(feed, state.last_id) = <<>>
    /\ state' = save(state)
    /\ file' = save(state)
    /\ GoCatchup(save(state), enabled, feed, 1)
    /\ KeepPartial
    /\ KeepMarked

\* a truncation that keeps the oldest entries of the backlog
truncate_backlog_oldest(bl) ==
    IF Len(bl) > MAX_BACKLOG_POSTS_PER_TICK
    THEN SubSeq(bl, Len(bl) - MAX_BACKLOG_POSTS_PER_TICK + 1, Len(bl)) ELSE bl

\* lines 532-534: backlog[:MAX_BACKLOG_POSTS_PER_TICK] of the backlog, which
\* is in feed order (newest first)
truncate_backlog(bl) ==
    IF Len(bl) > MAX_BACKLOG_POSTS_PER_TICK
    THEN SubSeq(bl, 1, MAX_BACKLOG_POSTS_PER_TICK) ELSE bl

\* lines 532-537: the dispatch loop starts on the oldest backlog article
TickBacklog ==
    /\ TickFetchedEntries
    /\ state.last_id # None
    /\ LET bl == feed_to_backlog(feed, state.last_id)
           cut == truncate_backlog(bl)
       IN /\ bl # <<>>
          /\ Len(bl) # Len(feed)
          /\ state' = save(state)
          /\ file' = save(state)
          /\ GoDispatch(save(state), enabled, feed, Reversed(cut), 1)
    /\ KeepPartial
    /\ KeepMarked

(***************************************************************************)
(* main.py: the awaited publish calls return                               *)
(***************************************************************************)

\* the monitor after the result of a publish call to `platform`
RecordResult(platform, ok) ==
    IF ok
    THEN /\ health' = record_success(health, platform)
         /\ UNCHANGED <<lastRet, nalerts>>
    ELSE /\ health' = record_failure(health, platform, now).h
         /\ lastRet' = record_failure(health, platform, now).ret
         /\ nalerts' = IF record_failure(health, platform, now).ret
                       THEN [nalerts EXCEPT ![platform] = @ + 1]
                       ELSE nalerts

\* the history of the tick after the result of publish(eid) on `platform`
NoteResult(platform, eid, ok) ==
    /\ failed' = IF ok THEN failed
                 ELSE [failed EXCEPT ![platform] = @ \cup {eid}]
    /\ added' = IF ok THEN [added EXCEPT ![platform] = @ \cup {eid}]
                ELSE added
    /\ result' = IF ok THEN "ok" ELSE "failed"
    /\ UNCHANGED <<cursorAtStart, sentAtStart, snapshot>>

\* the ledger after a successful publish: sent_add, then save
MarkSent(st, platform, eid) == save(sent_add(st, platform, eid))

\* a publish whose article is marked sent whatever it returns
AfterPublishAlwaysMarks(st, platform, eid, ok) == MarkSent(st, platform, eid)

\* lines 549-553 and 653-656: the ledger after publish returned `ok`
AfterPublish(st, platform, eid, ok) ==
    IF ok THEN MarkSent(st, platform, eid) ELSE st

\* lines 545-597: publish(article) on publishers[plat] returns `ok`
PublishDispatch ==
    /\ pc = "dispatch"
    /\ plat <= NPub
    /\ \E ok \in BOOLEAN :
         LET eid == backlog[idx]
             platform == publishers[plat]
             st == AfterPublish(state, platform, eid, ok)
         IN /\ state' = st
            /\ file' = IF ok THEN st ELSE file
            /\ cache' = IF ok THEN tokens ELSE cache
            /\ dates' = IF ok THEN MarkedDates(dates) ELSE dates
            /\ all_ok' = (all_ok /\ ok)
            /\ plat' = NextPlat(st, enabled, eid, plat + 1)
            /\ RecordResult(platform, ok)
            /\ NoteResult(platform, eid, ok)
    /\ UNCHANGED <<feed, issued, gist, tokens, retry, disk, otherTask, watcher, now, pc, enabled, entries, backlog, idx, ncalls, lastPartial, markedAtCrash>>

\* a cursor that advances whether or not every platform succeeded
AdvanceCursorUngated ==
    /\ pc = "dispatch"
    /\ plat = NPub + 1
    /\ LET st == save([state EXCEPT !.last_id = backlog[idx]])
       IN /\ state' = st
          /\ file' = st
          /\ IF idx < Len(backlog)
             THEN GoDispatch(st, enabled, entries, backlog, idx + 1)
             ELSE GoCatchup(st, enabled, entries, 1)
    /\ cache' = tokens
    /\ dates' = SavedDates(dates)
    /\ KeepPartial
    /\ KeepMarked
    /\ UNCHANGED <<feed, issued, gist, tokens, retry, disk, otherTask, watcher, now, health, lastRet, ncalls, nalerts>>
    /\ UNCHANGED history

\* lines 607-609 and 614-618: every attempt of the article succeeded, the
\* cursor moves to it; the loop goes on, or the catch-up pass starts
AdvanceCursor ==
    /\ pc = "dispatch"
    /\ plat = NPub + 1
    /\ all_ok
    /\ LET st == save([state EXCEPT !.last_id = backlog[idx]])
       IN /\ state' = st
          /\ file' = st
          /\ IF idx < Len(backlog)
             THEN GoDispatch(st, enabled, entries, backlog, idx + 1)
             ELSE GoCatchup(st, enabled, entries, 1)
    /\ cache' = tokens
    /\ dates' = SavedDates(dates)
    /\ KeepPartial
    /\ KeepMarked
    /\ UNCHANGED <<feed, issued, gist, tokens, retry, disk, otherTask, watcher, now, health, lastRet, ncalls, nalerts>>
    /\ UNCHANGED history

\* lines 610-612: partial publication, the tick stops
StopPartial ==
    /\ pc = "dispatch"
    /\ plat = NPub + 1
    /\ ~all_ok
    /\ lastPartial' = IF \E d \in enabled : backlog[idx] \in added[d]
                      THEN [backlog |-> backlog, idx |-> idx]
                      ELSE NoPartial
    /\ Return
    /\ KeepMarked
    /\ UNCHANGED <<feed, issued, gist, tokens, retry, dates, disk, otherTask, watcher, cache, file, now, health, lastRet, state, ncalls, nalerts>>
    /\ UNCHANGED history

\* lines 651-664: publish(article) of the catch-up pass returns `ok`
PublishCatchup ==
    /\ pc = "catchup"
    /\ \E ok \in BOOLEAN :
         LET eid == entries[idx]
             platform == publishers[plat]
             st == AfterPublish(state, platform, eid, ok)
         IN /\ state' = st
            /\ file' = IF ok THEN st ELSE file
            /\ cache' = IF ok THEN tokens ELSE cache
            /\ dates' = IF ok THEN MarkedDates(dates) ELSE dates
            /\ GoCatchup(st, enabled, entries, LinearPos(idx, plat) + 1)
            /\ RecordResult(platform, ok)
            /\ NoteResult(platform, eid, ok)
    /\ KeepPartial
    /\ KeepMarked
    /\ UNCHANGED <<feed, issued, gist, tokens, retry, disk, otherTask, watcher, now, ncalls>>

\* the running tick is suspended on a publish call
Calling ==
    \/ pc = "dispatch" /\ plat <= NPub
    \/ pc = "catchup"

\* the article and the platform of that call
CallItem == IF pc = "dispatch" THEN backlog[idx] ELSE entries[idx]
CallPlatform == publishers[plat]

(***************************************************************************)
(* main.py: the other tasks that load, modify and save the ledger file     *)
(***************************************************************************)

\* morning_message (707-726) loads the ledger, awaits a send, sets a date of
\* its own in its copy and saves the copy; nightly_promo, rss_sync and the
\* send_reboot_notice_if_needed of on_ready do the same and have their own
\* actions below
TaskNames == {"morning_message"}

\* publish was called for article eid in the running tick
CalledFor(eid) == \E d \in PLATFORMS : eid \in added[d] \cup failed[d]

\* the event loop can run another task: the watcher is between two ticks,
\* or suspended on the fetch, on a publish call, on send_publish_log and
\* send_twitter_draft before the cursor is stored (lines 600-605), or on the
\* sleep that follows an article which was published (lines 614-615)
WatcherSuspended ==
    \/ pc = "idle"
    \/ pc = "fetching"
    \/ Calling
    \/ /\ pc = "dispatch"
       /\ plat = NPub + 1
       /\ \/ CalledFor(backlog[idx])
          \/ idx > 1 /\ \E d \in PLATFORMS : backlog[idx - 1] \in added[d]

\* what a task other than the watcher leaves as it is
TaskFrame ==
    /\ UNCHANGED <<feed, issued, gist, tokens, retry, disk, watcher, now, health, lastRet, pc, state,
                   idx, plat, lastPartial, markedAtCrash, ncalls, nalerts>>
    /\ UNCHANGED tickLocals
    /\ UNCHANGED <<cursorAtStart, sentAtStart, failed, added, snapshot>>

\* the ledger a task holds after state = state_store.load(): the ledger, its
\* etag and modified, and its date keys; handler is the on_ready call that
\* holds the copy, 0 for the copy of a task or a command
Copy(t, keys) ==
    [name |-> t, state |-> file, cache |-> cache, keys |-> keys, handler |-> 0]

\* the copies held without the i-th
Dropped(i) == SubSeq(otherTask, 1, i - 1) \o SubSeq(otherTask, i + 1, Len(otherTask))

\* a task with this name is between its load and its save
InFlight(t) == \E i \in 1..Len(otherTask) : otherTask[i].name = t

\* state = state_store.load() (line 707), up to the await of the send that
\* follows when the message is due and discord or telegram is enabled;
\* morning_message is a tasks.loop, which runs one iteration at a time
TaskLoads ==
    /\ WatcherSuspended
    /\ Len(otherTask) < MaxInFlight
    /\ \E t \in TaskNames :
          /\ ~InFlight(t)
          /\ otherTask' = Append(otherTask, Copy(t, dates.file))
    /\ UNCHANGED <<file, cache, result, dates>>
    /\ TaskFrame

\* the file a task writes from its copy: rss_sync first sets last_id to the
\* newest entry of the feed it fetched, the other tasks and
\* send_reboot_notice_if_needed set a date or a timestamp of their own
task_save(t, st, fd) ==
    IF t = "rss_sync" /\ fd # <<>>
    THEN save([st EXCEPT !.last_id = fd[1]])
    ELSE save(st)

\* the await of a task returns: it modifies its copy and saves it
TaskSaves ==
    /\ WatcherSuspended
    /\ \E i \in 1..Len(otherTask) :
          /\ otherTask[i].name \in TaskNames
          /\ file' = task_save(otherTask[i].name, otherTask[i].state, feed)
          /\ cache' = otherTask[i].cache
          /\ dates' = [dates EXCEPT !.file = otherTask[i].keys]
          /\ otherTask' = Dropped(i)
    /\ UNCHANGED result
    /\ TaskFrame

\* rss_sync, line 816: state = state_store.load(), up to the await of the
\* fetch; the copy holds the ledger, its etag and modified and its date keys
RssSyncLoads ==
    /\ WatcherSuspended
    /\ Len(otherTask) < MaxInFlight
    /\ otherTask' = Append(otherTask, Copy("rss_sync", dates.file))
    /\ UNCHANGED <<file, cache, result, dates>>
    /\ TaskFrame

\* rss_sync, lines 817-830: the fetch returns, the command saves its copy
\* and, when the feed has entries, sets last_id to the newest one and saves
\* again
RssSyncSaves ==
    /\ WatcherSuspended
    /\ \E i \in 1..Len(otherTask) :
       \E outcome \in FetchOutcomes \cup {"entries"} :
       \E answer \in AnswerTokens(outcome) :
          /\ otherTask[i].name = "rss_sync"
          /\ outcome = "entries" => feed # <<>>
          /\ cache' = parse_rss_with_cache(outcome, answer, otherTask[i].cache)
          /\ file' = task_save("rss_sync", otherTask[i].state,
                               IF outcome = "entries" THEN feed ELSE <<>>)
          /\ result' = outcome
          /\ dates' = [dates EXCEPT !.file = otherTask[i].keys]
          /\ otherTask' = Dropped(i)
    /\ TaskFrame

(***************************************************************************)
(* The watcher alone on a site that publishes and withdraws articles       *)
(***************************************************************************)

Next ==
    \/ NewArticle
    \/ RetractArticle
    \/ TickLoads
    \/ TickNoEntries
    \/ TickColdStart
    \/ TickCursorNotFound
    \/ TickNoBacklog
    \/ TickBacklog
    \/ PublishDispatch
    \/ AdvanceCursor
    \/ StopPartial
    \/ PublishCatchup

Spec == Init /\ [][Next]_vars

(***************************************************************************)
(* Properties                                                              *)
(***************************************************************************)

\* C1 -- Idempotent delivery: an id that is in the sent list of a platform
\* when a tick starts is not published to that platform by that tick
\* (dispatch loop and catch-up pass).
C1_IdempotentDelivery ==
    Calling => CallItem \notin SeqToSet(sentAtStart[CallPlatform])

\* C8 -- Cooldown skip: no publish call is made on a platform while
\* is_in_cooldown of that platform is true.
C8_CooldownSkip ==
    Calling => ~is_in_cooldown(health, CallPlatform, now)


\* ids newly present in the sent list of d after a step
NewlySent(d) == SeqToSet(file'.sent[d]) \ SeqToSet(file.sent[d])

\* C2 -- No skip-ahead: in a tick in which a publish call to d for
\* article X returns failure, no article newer than X is added to the sent
\* list of d, in the dispatch loop and the catch-up pass together.
C2_NoSkipAhead ==
    \A d \in PLATFORMS : \A x \in failed[d] : \A y \in added[d] : y <= x

\* the dispatch loop moves the cursor in this step
CursorSetByDispatch == pc = "dispatch" /\ state'.last_id # state.last_id

\* every attempt for the current article of the dispatch loop is done
AttemptsDone == pc = "dispatch" /\ plat = NPub + 1

\* C3 -- Cursor-advance gate, as amended: when the dispatch loop sets the
\* cursor to X, every enabled destination that has a publisher has X in its
\* sent list; and if one of them lacks X after all attempts for X, the
\* cursor is left unchanged and the tick returns.
C3_CursorGatePublishers ==
    [][/\ CursorSetByDispatch =>
             \A d \in enabled \cap PublisherNames :
                 sent_has(state', d, state'.last_id)
       /\ (AttemptsDone /\ \E d \in enabled \cap PublisherNames :
                              ~sent_has(state, d, backlog[idx]))
             => (state'.last_id = state.last_id /\ file'.last_id = file.last_id
                 /\ pc' = "idle")]_vars

\* C3 as stated: the same for every destination of the enabled set.
C3_CursorGateEnabled ==
    [][/\ CursorSetByDispatch =>
             \A d \in enabled : sent_has(state', d, state'.last_id)
       /\ (AttemptsDone /\ \E d \in enabled : ~sent_has(state, d, backlog[idx]))
             => (state'.last_id = state.last_id /\ file'.last_id = file.last_id
                 /\ pc' = "idle")]_vars

\* the dispatch loop has moved the cursor to an article that two platforms
\* were sent in this tick
C3_Witness ==
    /\ pc = "dispatch"
    /\ idx = 2
    /\ state.last_id = backlog[1]
    /\ Cardinality({d \in enabled : backlog[1] \in added[d]}) >= 2

\* position of x in the sequence s that holds it
PosIn(s, x) == CHOOSE i \in 1..Len(s) : s[i] = x

\* C4 -- Cursor monotonicity, as amended: a step of a tick leaves the
\* cursor unchanged, or moves it to an entry of the snapshot that is newer
\* in the snapshot than the previous cursor, or, when the previous cursor is
\* not an entry of the snapshot, to the newest entry of the snapshot.
C4_CursorMonotonicOrReseeded ==
    [][\/ file'.last_id = file.last_id
       \/ /\ file'.last_id \in SeqToSet(snapshot')
          /\ IF file.last_id \in SeqToSet(snapshot')
             THEN PosIn(snapshot', file'.last_id) < PosIn(snapshot', file.last_id)
             ELSE file'.last_id = snapshot'[1]]_vars

\* C4 as stated: the cursor is unchanged or moves to an entry of the
\* snapshot that is a newer article; it never moves to an older article.
C4_CursorMonotonic ==
    [][\/ file'.last_id = file.last_id
       \/ /\ file'.last_id \in SeqToSet(snapshot')
          /\ file'.last_id > file.last_id]_vars

\* a tick whose cursor was not in the snapshot has moved the cursor to the
\* newest entry of the snapshot, an older article
C4_Witness ==
    /\ pc = "idle"
    /\ cursorAtStart # None
    /\ cursorAtStart \notin SeqToSet(snapshot)
    /\ snapshot # <<>>
    /\ file.last_id = snapshot[1]
    /\ file.last_id < cursorAtStart

\* C5 -- Cold start: a tick that starts from an empty ledger and gets a
\* snapshot of at least one entry ends with the cursor on the newest entry
\* and has made no publish call.
C5_ColdStart ==
    (now > 0 /\ cursorAtStart = None /\ sentAtStart = empty_state.sent
        /\ snapshot # <<>>)
    => /\ pc = "idle"
       /\ file.last_id = snapshot[1]
       /\ failed = NoSets
       /\ added = NoSets

\* a cold start over a feed of several entries has happened
C5_Witness ==
    /\ now > 0
    /\ cursorAtStart = None
    /\ sentAtStart = empty_state.sent
    /\ Len(snapshot) >= 2
    /\ file.last_id = snapshot[1]


\* the dispatch loop is about to stop on a partial publication of
\* PartialItem: some destination was sent it in this tick, another failed
PartialItem == backlog[idx]
PartialStop ==
    /\ pc = "dispatch" /\ plat = NPub + 1 /\ ~all_ok
    /\ \E d \in enabled : PartialItem \in added[d]

\* the fetch of a tick brings the unchanged feed right after a tick that
\* stopped on a partial publication
RetryTickStarts ==
    pc = "fetching" /\ lastPartial # NoPartial /\ snapshot' # <<>>

\* the part of the backlog of the stopped tick from the unresolved article on
PartialRest ==
    SubSeq(lastPartial.backlog, lastPartial.idx, Len(lastPartial.backlog))

\* C6 -- Partial failure is retried only where it failed, as amended: when
\* a tick stops on article X, X is in the sent list of every destination
\* that succeeded, the cursor is not moved to X (it is the backlog article
\* handled before X in that tick, or the cursor the tick started with), the
\* next tick over the same feed recomputes the backlog from X on, and
\* publish is only called for an article on a destination whose sent list
\* lacks it.
C6_PartialRetry ==
    [][/\ PartialStop =>
            /\ pc' = "idle"
            /\ \A d \in PLATFORMS :
                  PartialItem \in added[d] => sent_has(file', d, PartialItem)
            /\ file'.last_id = IF idx = 1 THEN cursorAtStart ELSE backlog[idx - 1]
            /\ file'.last_id # PartialItem
       /\ RetryTickStarts =>
            /\ pc' = "dispatch"
            /\ idx' = 1
            /\ backlog' = PartialRest
       /\ Calling' => ~sent_has(state', CallPlatform', CallItem')]_vars

\* C6 as stated: the cursor after the stopped tick is the cursor it started
\* with, and the next tick recomputes the same backlog.
C6_PartialRetrySameBacklog ==
    [][/\ PartialStop =>
            /\ pc' = "idle"
            /\ \A d \in PLATFORMS :
                  PartialItem \in added[d] => sent_has(file', d, PartialItem)
            /\ file'.last_id = cursorAtStart
       /\ RetryTickStarts =>
            /\ pc' = "dispatch"
            /\ idx' = 1
            /\ backlog' = lastPartial.backlog
       /\ Calling' => ~sent_has(state', CallPlatform', CallItem')]_vars

\* the tick after a partial publication of X retries X on a destination
\* that failed while another enabled destination was sent X before
C6_Witness ==
    /\ pc = "dispatch"
    /\ lastPartial # NoPartial
    /\ idx = 1
    /\ plat <= NPub
    /\ backlog[1] = lastPartial.backlog[lastPartial.idx]
    /\ \E d \in enabled : sent_has(state, d, backlog[1])

\* the awaited publish call for x on d returns success in this step
PublishSucceeds(d, x) ==
    Calling /\ CallPlatform = d /\ CallItem = x /\ result' = "ok"

\* a tick seeds the ledger in this step (cold start or cursor not found)
SeedStep ==
    /\ pc = "fetching" /\ pc' = "idle" /\ snapshot' # <<>>
    /\ state.last_id = None \/ state.last_id \notin SeqToSet(snapshot')

\* C7 -- Sent implies delivered, as amended: an id enters the sent list of
\* a destination only when a publish call for it on that destination has
\* just returned success, or when a cold-start or cursor-not-found seed
\* marks the entries of the snapshot without publishing, and then only for
\* a destination that is enabled in that tick and has a publisher.
C7_SentImpliesDeliveredOrSeeded ==
    [][\A d \in PLATFORMS : \A x \in NewlySent(d) :
          \/ PublishSucceeds(d, x)
          \/ /\ SeedStep
             /\ d \in enabled /\ d \in PublisherNames
             /\ x \in SeqToSet(snapshot')]_vars

\* C7 as stated: an id enters the sent list of a destination only when a
\* publish call for it on that destination has just returned success.
C7_SentImpliesDelivered ==
    [][\A d \in PLATFORMS : \A x \in NewlySent(d) : PublishSucceeds(d, x)]_vars

\* a sent list holds an id delivered in this tick beside an older one
C7_Witness ==
    /\ result = "ok"
    /\ \E d \in PLATFORMS : \E x \in added[d] :
          sent_has(file, d, x) /\ Len(file.sent[d]) >= 2


(***************************************************************************)
(* StateStore.save applied to any ledger                                   *)
(***************************************************************************)

BoundedSeq(S, n) == UNION {[1..k -> S] : k \in 0..n}

\* the ids 1, 2, ... in the order they were sent, k of them
Counting(k) == [i \in 1..k |-> ((i - 1) % MaxId) + 1]

\* ledgers given to save: any sent list for discord, up to MaxListLen
\* long, a counting one for telegram, the lists of the other platforms empty
LedgerInputs ==
    {[last_id |-> c,
      sent |-> [p \in PLATFORMS |->
                  IF p = "discord" THEN l1
                  ELSE IF p = "telegram" THEN Counting(k) ELSE <<>>]] :
        c \in {None, 1},
        l1 \in BoundedSeq(Ids, MaxListLen),
        k \in 0..(sent_ring_max + 1)}

InitSave ==
    /\ InitRest
    /\ pc = "save"
    /\ state \in LedgerInputs

\* state_store.save(state) on the ledger in memory
SaveLedger ==
    /\ pc = "save"
    /\ pc' = "saved"
    /\ sentAtStart' = state.sent
    /\ state' = save(state)
    /\ file' = save(state)
    /\ UNCHANGED <<feed, issued, gist, tokens, retry, dates, disk, otherTask, watcher, cache, now, health, lastRet, enabled, entries, backlog, idx,
                   plat, all_ok, cursorAtStart, failed, added, lastPartial, markedAtCrash,
                   snapshot, result, ncalls, nalerts>>

NextSave == SaveLedger

SaveSpec == InitSave /\ [][NextSave]_vars

MonitoredPlatforms == {"discord", "telegram"}

InitHealth ==
    /\ InitRest
    /\ pc = "monitor"
    /\ state = empty_state

MonitorFrame ==
    UNCHANGED <<feed, issued, gist, tokens, retry, dates, disk, otherTask, watcher, cache, file, pc, state, enabled, entries, backlog, idx,
                all_ok, cursorAtStart, sentAtStart, failed, added,
                lastPartial, markedAtCrash, snapshot>>

\* index of a platform in publishers
PubIndex(platform) == CHOOSE j \in 1..NPub : publishers[j] = platform

\* health.record_success(platform) / health.record_failure(platform)
MonitorCall ==
    /\ pc = "monitor"
    /\ ncalls < MaxCalls
    /\ ncalls' = ncalls + 1
    /\ \E platform \in MonitoredPlatforms : \E ok \in BOOLEAN :
          /\ RecordResult(platform, ok)
          /\ plat' = PubIndex(platform)
          /\ result' = IF ok THEN "ok" ELSE "failed"
    /\ UNCHANGED now
    /\ MonitorFrame

\* time passes between two calls
MonitorElapse ==
    /\ pc = "monitor"
    /\ ncalls < MaxCalls
    /\ ncalls' = ncalls + 1
    /\ now' = now + RSS_POLL_MINUTES * 60
    /\ UNCHANGED <<health, lastRet, nalerts, plat, result>>
    /\ MonitorFrame

NextHealth == MonitorCall \/ MonitorElapse

HealthSpec == InitHealth /\ [][NextHealth]_vars

\* record_failure(p) is called in this step
FailureCall(p) == health'.failures[p] = health.failures[p] + 1

\* C10 -- One-shot alert: record_failure returns true exactly on the call
\* that brings the consecutive-failure count of the platform to the alert
\* threshold, which it does once after every record_success, and false on
\* every other call.
C10_OneShotAlert ==
    [][\A p \in PLATFORMS :
          FailureCall(p) => (lastRet' = (health'.failures[p] = alert_threshold))]_vars

\* the alert of a platform has fired again after a success
C10_Witness ==
    \E p \in PLATFORMS : nalerts[p] >= 2 /\ health.alerted[p]


\* the monitor call of this step is record_success(p) / record_failure(p)
SuccessCallOn(p) ==
    pc = "monitor" /\ ncalls' = ncalls + 1 /\ now' = now
    /\ plat' = PubIndex(p) /\ result' = "ok"
FailureCallOn(p) ==
    pc = "monitor" /\ ncalls' = ncalls + 1 /\ now' = now
    /\ plat' = PubIndex(p) /\ result' = "failed"

\* C11 -- record_success(d) leaves d with a failure count of 0, the alerted
\* flag false and no last-failure time, so that get_failures(d) is 0 and
\* is_in_cooldown(d) is false right after it; record_failure(d) raises the
\* count of d by exactly 1.
C11_SuccessResets ==
    [][\A p \in MonitoredPlatforms :
          /\ SuccessCallOn(p) =>
                /\ health'.failures[p] = 0
                /\ ~health'.alerted[p]
                /\ health'.last[p] = NoTime
                /\ get_failures(health', p) = 0
                /\ ~is_in_cooldown(health', p, now')
          /\ FailureCallOn(p) =>
                get_failures(health', p) = get_failures(health, p) + 1]_vars

\* record_success has just been called on a platform that was alerted and
\* in cooldown
C11_Witness ==
    /\ pc = "monitor"
    /\ result = "ok"
    /\ nalerts[publishers[plat]] >= 1
    /\ health.failures[publishers[plat]] = 0
    /\ ~health.alerted[publishers[plat]]


(***************************************************************************)
(* HealthMonitor.is_in_cooldown on a platform that keeps failing           *)
(***************************************************************************)

InitCooldown ==
    /\ InitRest
    /\ pc = "cooldown"
    /\ state = empty_state

CooldownFrame ==
    UNCHANGED <<feed, issued, gist, tokens, retry, dates, disk, otherTask, watcher, cache, file, pc, state, enabled, entries, backlog, idx,
                plat, all_ok, cursorAtStart, sentAtStart, failed, added,
                lastPartial, markedAtCrash, snapshot, ncalls>>

\* health.record_failure("discord")
CooldownFailure ==
    /\ pc = "cooldown"
    /\ health.failures["discord"] < MaxFailures
    /\ RecordResult("discord", FALSE)
    /\ result' = "failed"
    /\ UNCHANGED now
    /\ CooldownFrame

\* a poll interval passes
CooldownWait ==
    /\ pc = "cooldown"
    /\ now < MaxWaits * RSS_POLL_MINUTES * 60
    /\ now' = now + RSS_POLL_MINUTES * 60
    /\ result' = "none"
    /\ UNCHANGED <<health, lastRet, nalerts>>
    /\ CooldownFrame

\* health.is_in_cooldown("discord")
CooldownCheck ==
    /\ pc = "cooldown"
    /\ lastRet' = is_in_cooldown(health, "discord", now)
    /\ result' = "checked"
    /\ UNCHANGED <<now, health, nalerts>>
    /\ CooldownFrame

NextCooldown == CooldownFailure \/ CooldownWait \/ CooldownCheck

CooldownSpec == InitCooldown /\ [][NextCooldown]_vars

\* C12 -- Cooldown monotonic and capped: from the alert threshold on, the
\* cooldown duration min(failures * 120 s, cooldown_max_minutes * 60 s) does
\* not exceed the maximum and does not decrease when the failure count
\* grows, and is_in_cooldown is never true once the maximum has elapsed
\* since the last failure.
C12_CooldownMonotonicCapped ==
    [][LET n  == health.failures["discord"]
           n2 == health'.failures["discord"]
       IN /\ n >= alert_threshold =>
                cooldown_sec(n) <= cooldown_max_minutes * 60
          /\ (n >= alert_threshold /\ n2 = n + 1) =>
                cooldown_sec(n) <= cooldown_sec(n2)
          /\ (result' = "checked" /\ lastRet') =>
                now - health.last["discord"] < cooldown_max_minutes * 60]_vars

\* is_in_cooldown has returned true for a failure count whose uncapped
\* duration is over the maximum
C12_Witness ==
    /\ pc = "cooldown"
    /\ result = "checked"
    /\ lastRet
    /\ health.failures["discord"] * 120 > cooldown_max_minutes * 60


(***************************************************************************)
(* StateStore.load on any ledger file and any Gist                          *)
(***************************************************************************)

\* A document, local or in the Gist.  kind: "missing" (no file, or no such
\* file in the Gist), "garbage" (not JSON), "notobject" (JSON, not an
\* object), "object".  For an object: has_last / last_id, the "last_id"
\* key; sent_kind, "absent" (no "sent" key), "notdict" ("sent" is null, a
\* list, a string, a number) or "dict"; keys, the platforms "sent" names;
\* lists, their lists; other, whether the object has a key besides
\* "last_id" and "sent" ("etag", "modified", a date).
Doc(kind, has_last, last_id, sent_kind, keys, lists, other) ==
    [kind |-> kind, has_last |-> has_last, last_id |-> last_id,
     sent_kind |-> sent_kind, keys |-> keys, lists |-> lists,
     other |-> other]

NoLists == [p \in PLATFORMS |-> <<>>]
NoDoc(kind) == Doc(kind, FALSE, None, "absent", {}, NoLists, FALSE)

\* the lists a document gives discord and telegram
DocLists ==
    {[p \in PLATFORMS |-> IF p = "discord" THEN l ELSE <<>>] :
        l \in {<<>>, <<1>>, <<2, 1>>}}

Docs ==
    {NoDoc("missing"), NoDoc("garbage"), NoDoc("notobject")}
    \cup {Doc("object", h, IF h THEN c ELSE None, "absent", {}, NoLists, o) :
            h \in BOOLEAN, c \in {None, 1}, o \in BOOLEAN}
    \cup {Doc("object", h, IF h THEN c ELSE None, "notdict", {}, NoLists, o) :
            h \in BOOLEAN, c \in {None, 1}, o \in BOOLEAN}
    \cup {Doc("object", h, IF h THEN c ELSE None, "dict", k,
              [p \in PLATFORMS |-> IF p \in k THEN ls[p] ELSE <<>>], o) :
            h \in BOOLEAN, c \in {None, 1},
            k \in SUBSET {"discord", "telegram"}, ls \in DocLists,
            o \in BOOLEAN}

\* the ledger as the document _atomic_write_json writes: _normalize has
\* given it the keys "etag" and "modified"
AsDoc(st) == Doc("object", TRUE, st.last_id, "dict", PLATFORMS, st.sent, TRUE)

\* StateStore._normalize: raises when "sent" has no setdefault
normalize_raises(doc) == doc.sent_kind = "notdict"
normalize(doc) ==
    [last_id |-> IF doc.has_last THEN doc.last_id ELSE None,
     sent |-> [p \in PLATFORMS |->
                 IF doc.sent_kind = "dict" /\ p \in doc.keys
                 THEN doc.lists[p] ELSE <<>>]]

\* StateStore.load: what it returns, from where, or that it raises.
\* `if gist_data:` (line 81) is false for None, which GistSync.pull returns
\* unless the Gist file parses to an object, and for an object without keys
load(local, remote) ==
    IF local.kind = "object"
    THEN [raised |-> normalize_raises(local), from |-> "local",
          st |-> IF normalize_raises(local) THEN empty_state
                 ELSE normalize(local)]
    ELSE IF /\ remote.kind = "object"
            /\ remote.has_last \/ remote.sent_kind # "absent" \/ remote.other
    THEN [raised |-> normalize_raises(remote), from |-> "gist",
          st |-> IF normalize_raises(remote) THEN empty_state
                 ELSE normalize(remote)]
    ELSE [raised |-> FALSE, from |-> "none", st |-> empty_state]

InitLoad ==
    /\ feed = <<>>
    /\ issued = 0
    /\ gist \in {NoGist} \cup Docs
    /\ otherTask = NoTask
    /\ disk = NoDisk
    /\ tokens = NoTokens
    /\ retry = NoRetry
    /\ dates = NoDates
    /\ watcher = NoWatcher
    /\ cache = NoTokens
    /\ file \in Docs
    /\ now = 0
    /\ health = empty_health
    /\ lastRet = FALSE
    /\ pc = "load"
    /\ state = empty_state
    /\ enabled = {}
    /\ entries = <<>>
    /\ backlog = <<>>
    /\ idx = 0
    /\ plat = 0
    /\ all_ok = TRUE
    /\ cursorAtStart = None
    /\ sentAtStart = empty_state.sent
    /\ failed = NoSets
    /\ added = NoSets
    /\ lastPartial = NoPartial
    /\ markedAtCrash = NoSets
    /\ snapshot = <<>>
    /\ result = "none"
    /\ ncalls = 0
    /\ nalerts = [p \in PLATFORMS |-> 0]

\* state_store.load()
LoadLedger ==
    /\ pc = "load"
    /\ LET r == load(file, gist)
       IN /\ pc' = IF r.raised THEN "raised" ELSE "loaded"
          /\ state' = r.st
          /\ result' = r.from
          /\ file' = IF r.from = "gist" /\ ~r.raised THEN AsDoc(r.st) ELSE file
    /\ UNCHANGED <<feed, issued, gist, tokens, retry, dates, disk, otherTask, watcher, cache, now, health, lastRet, enabled, entries,
                   backlog, idx, plat, all_ok, cursorAtStart, sentAtStart,
                   failed, added, lastPartial, markedAtCrash, snapshot, ncalls, nalerts>>

NextLoad == LoadLedger

LoadSpec == InitLoad /\ [][NextLoad]_vars

\* C13 -- StateStore.load never raises, and when the ledger file is
\* missing, is not valid JSON or holds a JSON value that is not an object,
\* it returns a fresh empty ledger.
C13_LoadNeverRaises ==
    /\ pc # "raised"
    /\ (pc = "loaded" /\ result # "local") => state = empty_state


(***************************************************************************)
(* StateStore.sent_add / sent_has on any ledger without duplicates         *)
(***************************************************************************)

NoDuplicate(lst) == \A i, j \in 1..Len(lst) : lst[i] = lst[j] => i = j

\* ledgers given to sent_add: a discord list without duplicates, up to
\* two entries longer than the ring (load does not truncate), the other
\* lists empty
SentAddInputs ==
    {[last_id |-> None,
      sent |-> [p \in PLATFORMS |-> IF p = "discord" THEN l ELSE <<>>]] :
        l \in {q \in BoundedSeq(Ids, sent_ring_max + 2) : NoDuplicate(q)}}

InitSentAdd ==
    /\ InitRest
    /\ pc = "sentadd"
    /\ state \in SentAddInputs

\* state_store.sent_add(state, d, x); sentAtStart keeps the lists before the
\* call and added the arguments of the call
SentAddCall ==
    /\ pc = "sentadd"
    /\ ncalls < MaxAdds
    /\ ncalls' = ncalls + 1
    /\ \E d \in {"discord", "telegram"} : \E x \in Ids :
          /\ state' = sent_add(state, d, x)
          /\ added' = [p \in PLATFORMS |-> IF p = d THEN {x} ELSE {}]
    /\ sentAtStart' = state.sent
    /\ UNCHANGED <<feed, issued, gist, tokens, retry, dates, disk, otherTask, watcher, cache, file, now, health, lastRet, pc, enabled,
                   entries, backlog, idx, plat, all_ok, cursorAtStart, failed,
                   lastPartial, markedAtCrash, snapshot, result, nalerts>>

NextSentAdd == SentAddCall

SentAddSpec == InitSentAdd /\ [][NextSentAdd]_vars

\* the call of this step has the arguments of the call before it
RepeatedCall == ncalls >= 1 /\ ncalls' = ncalls + 1 /\ added' = added

\* C14 -- sent_add is idempotent and duplicate-free: from a ledger whose
\* sent lists hold no duplicate, no sequence of sent_add calls puts an id
\* twice in a list, and a second sent_add(d, x) right after the first
\* leaves the ledger as the first left it.
C14_SentAddIdempotent ==
    [][/\ \A d \in PLATFORMS : NoDuplicate(state'.sent[d])
       /\ RepeatedCall => state' = state]_vars

\* the list before the call, with x appended when it was not in it
Inserted(d, x) ==
    IF x \in SeqToSet(sentAtStart[d]) THEN sentAtStart[d]
    ELSE Append(sentAtStart[d], x)

\* C15 -- For sent_ring_max >= 1 and any ledger, right after
\* sent_add(state, d, x) the sent list of d has at most sent_ring_max
\* entries and sent_has(state, d, x) is true, and the entries evicted are
\* the oldest by insertion order.
C15_SentAddBoundedAndPresent ==
    \A d \in PLATFORMS : \A x \in added[d] :
        (pc = "sentadd" /\ ncalls >= 1) =>
           /\ Len(state.sent[d]) <= sent_ring_max
           /\ sent_has(state, d, x)
           /\ \E k \in 0..Len(Inserted(d, x)) :
                 state.sent[d] = SubSeq(Inserted(d, x), k + 1, Len(Inserted(d, x)))


(***************************************************************************)
(* feed_to_backlog on any feed and any cursor                              *)
(***************************************************************************)

\* a ledger with any cursor; feed_to_backlog has not been called
InitBacklog ==
    /\ InitRest
    /\ pc = "fetch"
    /\ state \in {[empty_state EXCEPT !.last_id = c] : c \in {None} \cup Ids}

BacklogFrame ==
    UNCHANGED <<feed, issued, gist, tokens, retry, dates, disk, otherTask, watcher, cache, file, now, health, lastRet, state, enabled,
                idx, plat, all_ok, cursorAtStart, sentAtStart, failed, added,
                lastPartial, markedAtCrash, snapshot, result, ncalls, nalerts>>

\* backlog = feed_to_backlog(feed, last_seen), called with the cursor of the
\* ledger on a feed of any entries, newest first
BacklogCompute ==
    /\ pc = "fetch"
    /\ pc' = "computed"
    /\ \E ents \in BoundedSeq(Ids, FeedLen) :
          /\ entries' = ents
          /\ backlog' = feed_to_backlog(ents, state.last_id)
    /\ BacklogFrame

NextBacklog == BacklogCompute

BacklogSpec == InitBacklog /\ [][NextBacklog]_vars

\* C16 -- feed_to_backlog(feed, cursor) returns, in the order of the feed,
\* exactly the entries before the first entry whose id is the cursor: all
\* entries when none matches, none when the newest matches or the feed is
\* empty.
C16_BacklogIsPrefixBeforeCursor ==
    pc = "computed" =>
       LET n == Len(backlog)
           cursor == state.last_id
       IN /\ n <= Len(entries)
          /\ \A i \in 1..n : backlog[i] = entries[i] /\ entries[i] # cursor
          /\ n < Len(entries) => entries[n + 1] = cursor
          /\ cursor \notin SeqToSet(entries) => backlog = entries
          /\ (entries = <<>> \/ entries[1] = cursor) => backlog = <<>>

\* the cursor was found after at least one entry and before the last one
C16_Witness ==
    /\ pc = "computed"
    /\ Len(backlog) >= 1
    /\ Len(backlog) + 1 < Len(entries)


(***************************************************************************)
(* The catch-up pass on a feed longer than CATCHUP_WINDOW                  *)
(***************************************************************************)

\* a feed of CATCHUP_WINDOW + 1 entries, newest first
LongFeed == [i \in 1..(CATCHUP_WINDOW + 1) |-> CATCHUP_WINDOW + 2 - i]

\* the newest entry, the last entry of the window and the entry after it
WindowIds == {CATCHUP_WINDOW + 1, 2, 1}

\* ledgers whose cursor is the newest entry of LongFeed: any sent lists
\* without duplicates for discord and telegram, within the ring
CatchupLedgers ==
    {[last_id |-> CATCHUP_WINDOW + 1,
      sent |-> [p \in PLATFORMS |->
                  IF p = "discord" THEN l1
                  ELSE IF p = "telegram" THEN l2 ELSE <<>>]] :
        l1, l2 \in {q \in BoundedSeq(WindowIds, sent_ring_max) : NoDuplicate(q)}}

InitCatchup ==
    /\ feed = LongFeed
    /\ issued = CATCHUP_WINDOW + 1
    /\ gist = NoGist
    /\ otherTask = NoTask
    /\ disk = NoDisk
    /\ tokens = NoTokens
    /\ retry = NoRetry
    /\ dates = NoDates
    /\ watcher = NoWatcher
    /\ cache = NoTokens
    /\ file \in CatchupLedgers
    /\ state = file
    /\ now = 0
    /\ health = empty_health
    /\ lastRet = FALSE
    /\ pc = "idle"
    /\ enabled = {}
    /\ entries = <<>>
    /\ backlog = <<>>
    /\ idx = 0
    /\ plat = 0
    /\ all_ok = TRUE
    /\ cursorAtStart = None
    /\ sentAtStart = empty_state.sent
    /\ failed = NoSets
    /\ added = NoSets
    /\ lastPartial = NoPartial
    /\ markedAtCrash = NoSets
    /\ snapshot = <<>>
    /\ result = "none"
    /\ ncalls = 0
    /\ nalerts = [p \in PLATFORMS |-> 0]

NextCatchupPass == TickLoads \/ TickNoBacklog \/ PublishCatchup

CatchupSpec == InitCatchup /\ [][NextCatchupPass]_vars

\* C17 -- Catch-up, as amended: the catch-up pass calls publish for
\* (item, d) only when the item is among the CATCHUP_WINDOW most recent
\* entries of the feed, d is enabled, the sent list of d lacks the item and
\* the sent list of another platform that has a publisher, enabled or not,
\* holds it.
C17_CatchupOnlyLagging ==
    pc = "catchup" =>
       /\ idx <= CATCHUP_WINDOW
       /\ CallItem = feed[idx]
       /\ CallPlatform \in enabled
       /\ ~sent_has(state, CallPlatform, CallItem)
       /\ \E o \in PublisherNames \ {CallPlatform} : sent_has(state, o, CallItem)

\* C17 as stated: ... and the sent list of another enabled destination
\* holds the item.
C17_CatchupOnlyLaggingEnabled ==
    pc = "catchup" =>
       /\ idx <= CATCHUP_WINDOW
       /\ CallItem = feed[idx]
       /\ CallPlatform \in enabled
       /\ ~sent_has(state, CallPlatform, CallItem)
       /\ \E o \in enabled \ {CallPlatform} : sent_has(state, o, CallItem)

\* the pass publishes the last entry of the window while a platform holds
\* the entry after it, which another platform lacks
C17_Witness ==
    /\ pc = "catchup"
    /\ idx = CATCHUP_WINDOW
    /\ \E d, o \in enabled \cap PublisherNames :
          /\ sent_has(state, o, feed[CATCHUP_WINDOW + 1])
          /\ ~sent_has(state, d, feed[CATCHUP_WINDOW + 1])


(***************************************************************************)
(* The process is killed during a tick and started again                   *)
(***************************************************************************)

\* the process dies while the tick is suspended on the fetch or on an await
\* of the dispatch loop or of the catch-up pass; the new process has a fresh
\* monitor, no ledger in memory, and the ledger file the old one left
Crash ==
    /\ pc \in {"fetching", "dispatch", "catchup"}
    /\ markedAtCrash' = IF pc = "fetching" THEN NoSets ELSE added
    /\ result' = "crashed"
    /\ state' = empty_state
    /\ health' = empty_health
    /\ lastRet' = FALSE
    /\ lastPartial' = NoPartial
    /\ tokens' = NoTokens
    /\ Return
    /\ UNCHANGED <<feed, issued, gist, retry, dates, disk, otherTask, watcher, cache, file, now, ncalls, nalerts>>
    /\ UNCHANGED <<cursorAtStart, sentAtStart, failed, added, snapshot>>

NextCrash == Next \/ Crash

CrashSpec == Init /\ [][NextCrash]_vars

\* every await of the dispatch loop and of the catch-up pass finds the
\* ledger file equal to the ledger in memory
LedgerWrittenAtAwait == pc \in {"dispatch", "catchup"} => file = state

\* the process has just been started again after a crash
Restarted == pc = "idle" /\ result = "crashed"

\* the ledger file a restarted process finds holds every id the crashed
\* tick marked
MarkedSurviveCrash ==
    Restarted => \A d \in PLATFORMS : \A x \in markedAtCrash[d] : sent_has(file, d, x)

\* C18 -- Mid-tick durability: what a tick has marked sent is in the ledger
\* file at each of its later awaits; when the process crashes during the
\* tick and starts again, the ledger file holds every id the tick marked
\* before the crash, and the next tick publishes none of them again to the
\* same platform.
C18_CrashDurability ==
    /\ LedgerWrittenAtAwait
    /\ MarkedSurviveCrash
    /\ Calling => CallItem \notin markedAtCrash[CallPlatform]


(***************************************************************************)
(* Ticks whose fetch brings no entry                                       *)
(***************************************************************************)

\* ledger files: any cursor, and for discord any list without duplicates,
\* up to one entry longer than the ring (a file written under a larger
\* sent_ring_max, which load returns as it is)
FetchLedgers ==
    {[last_id |-> c,
      sent |-> [p \in PLATFORMS |-> IF p = "discord" THEN l ELSE <<>>]] :
        c \in {None} \cup Ids,
        l \in {q \in BoundedSeq(Ids, sent_ring_max + 1) : NoDuplicate(q)}}

\* the ledger of these runs starts with or without an etag and modified
InitFetch ==
    /\ feed \in {<<>>, <<MaxId>>}
    /\ issued = IF feed = <<>> THEN 0 ELSE MaxId
    /\ gist = NoGist
    /\ otherTask = NoTask
    /\ disk = NoDisk
    /\ tokens = NoTokens
    /\ retry = NoRetry
    /\ dates = NoDates
    /\ watcher = NoWatcher
    /\ cache \in {NoTokens, [etag |-> 2, modified |-> 2]}
    /\ file \in FetchLedgers
    /\ state = empty_state
    /\ now = 0
    /\ health = empty_health
    /\ lastRet = FALSE
    /\ pc = "idle"
    /\ enabled = {}
    /\ entries = <<>>
    /\ backlog = <<>>
    /\ idx = 0
    /\ plat = 0
    /\ all_ok = TRUE
    /\ cursorAtStart = None
    /\ sentAtStart = empty_state.sent
    /\ failed = NoSets
    /\ added = NoSets
    /\ lastPartial = NoPartial
    /\ markedAtCrash = NoSets
    /\ snapshot = <<>>
    /\ result = "none"
    /\ ncalls = 0
    /\ nalerts = [p \in PLATFORMS |-> 0]

NextFetch == TickLoads \/ TickNoEntries \/ RssSyncLoads \/ RssSyncSaves

FetchSpec == InitFetch /\ [][NextFetch]_vars

\* the awaited fetch of the running tick is over; in these runs it has
\* failed, timed out or brought no entry
FetchNothingStep == pc = "fetching" /\ pc' # "fetching"

\* C19 -- A tick whose fetch fails, times out or brings no entry is a no-op:
\* it returns without raising and without a publish call, and it leaves the
\* cursor and the sent-set of every destination in the ledger file as they
\* are and, when the fetch failed or timed out, the etag and modified too.
C19_FetchNothingIsNoOp ==
    [][FetchNothingStep =>
         /\ pc' = "idle" /\ result' \in FetchOutcomes
         /\ added' = NoSets /\ failed' = NoSets
         /\ file'.last_id = file.last_id
         /\ \A d \in PLATFORMS :
               SeqToSet(file'.sent[d]) = SeqToSet(file.sent[d])
         /\ result' \in {"timeout", "error"} => cache' = cache]_vars

\* what such a tick does: it returns without a publish call and writes the
\* ledger it loaded, the lists cut to the ring, with the etag and modified
\* it loaded when the fetch failed or timed out
FetchWritesWhatItLoaded ==
    [][FetchNothingStep =>
         /\ pc' = "idle" /\ result' \in FetchOutcomes
         /\ added' = NoSets /\ failed' = NoSets
         /\ file'.last_id = cursorAtStart
         /\ \A d \in PLATFORMS :
               /\ Len(sentAtStart[d]) <= sent_ring_max =>
                     file'.sent[d] = sentAtStart[d]
               /\ Len(sentAtStart[d]) > sent_ring_max =>
                     /\ Len(file'.sent[d]) = sent_ring_max
                     /\ \A i \in 1..sent_ring_max :
                           file'.sent[d][i] =
                              sentAtStart[d][Len(sentAtStart[d]) - sent_ring_max + i]
         /\ state' = file'
         /\ result' \in {"timeout", "error"} =>
                tokens' = tokens /\ cache' = tokens]_vars


(***************************************************************************)
(* The loop that runs the tick, and on_ready                               *)
(***************************************************************************)

\* Loop.is_running(): the loop has a task that is not done
is_running(w) == w.task

\* Loop.start(): a new task whose first iteration is due at once; the
\* library refuses to start a loop whose task is not done (RuntimeError)
start(w, t) == [w EXCEPT !.task = TRUE, !.next = t]

\* what on_ready leaves as it is
ReadyFrame ==
    UNCHANGED <<feed, issued, gist, tokens, retry, disk, now, health, lastRet, pc, state,
                enabled, entries, backlog, idx, plat, all_ok, cursorAtStart,
                sentAtStart, failed, added, lastPartial, markedAtCrash,
                snapshot, result, ncalls, nalerts>>

\* on_ready, lines 764-768: the handler is called and runs
\* send_reboot_notice_if_needed, which loads the ledger (line 439). The
\* last_reboot_notice_ts of the ledger is not among the keys kept here, so
\* the cooldown test of line 441 is an input, and so is DISCORD_LOG_CHANNEL_ID.
\* In cooldown the notice returns at once; without a log channel it saves
\* the ledger it has just loaded (lines 454-455); in both cases nothing is
\* awaited and on_ready goes on to start the loop unless it is running
\* (lines 771-773). With a log channel the handler is suspended in
\* resolve_discord_channel or ch.send with its copy of the ledger.
OnReadyFires ==
    /\ WatcherSuspended
    /\ \E h \in 1..MaxReady :
          /\ watcher.ready[h] = "none"
          /\ \A g \in 1..(h - 1) : watcher.ready[g] # "none"
          /\ \/ /\ watcher' =
                     IF is_running(watcher)
                     THEN [watcher EXCEPT !.ready[h] = "done"]
                     ELSE [start(watcher, now) EXCEPT !.ready[h] = "done"]
                /\ \E cooldown \in BOOLEAN :
                      file' = IF cooldown THEN file
                              ELSE task_save("send_reboot_notice_if_needed",
                                             file, feed)
                /\ UNCHANGED otherTask
             \/ /\ Len(otherTask) < MaxInFlight
                /\ watcher' = [watcher EXCEPT !.ready[h] = "notice"]
                /\ otherTask' =
                     Append(otherTask,
                            [Copy("send_reboot_notice_if_needed", dates.file)
                               EXCEPT !.handler = h])
                /\ UNCHANGED file
    /\ UNCHANGED <<cache, dates>>
    /\ ReadyFrame

\* the await of send_reboot_notice_if_needed returns: the handler saves its
\* copy of the ledger (lines 454-455), and on_ready goes on without an await
\* in between and starts the loop unless it is running (lines 771-773)
OnReadyStarts ==
    /\ WatcherSuspended
    /\ \E h \in 1..MaxReady : \E i \in 1..Len(otherTask) :
          /\ watcher.ready[h] = "notice"
          /\ otherTask[i].name = "send_reboot_notice_if_needed"
          /\ otherTask[i].handler = h
          /\ file' = task_save(otherTask[i].name, otherTask[i].state, feed)
          /\ cache' = otherTask[i].cache
          /\ dates' = [dates EXCEPT !.file = otherTask[i].keys]
          /\ otherTask' = Dropped(i)
          /\ watcher' =
               IF is_running(watcher)
               THEN [watcher EXCEPT !.ready[h] = "done"]
               ELSE [start(watcher, now) EXCEPT !.ready[h] = "done"]
    /\ ReadyFrame

\* an iteration that starts whenever the interval has elapsed
MayIterateOnInterval(w, t) == w.task /\ t >= w.next

\* the task of the loop calls the coroutine when the next iteration is due
\* and the call of the previous iteration has returned
MayIterate(w, t) == w.task /\ t >= w.next /\ w.running = 0

\* @tasks.loop(minutes=RSS_POLL_MINUTES): an iteration begins; the one after
\* it is due an interval later
LoopIterates ==
    /\ MayIterate(watcher, now)
    /\ watcher' = [watcher EXCEPT !.running = @ + 1,
                                  !.next = now + RSS_POLL_MINUTES * 60]
    /\ UNCHANGED <<feed, issued, gist, tokens, retry, dates, disk, otherTask, cache, file, now, health, lastRet, pc, state,
                   enabled, entries, backlog, idx, plat, all_ok, cursorAtStart,
                   sentAtStart, failed, added, lastPartial, markedAtCrash,
                   snapshot, result, ncalls, nalerts>>

\* bergfrid_watcher returns (raised = FALSE), or raises and ends the task
\* of the loop
TickEnds ==
    /\ watcher.running > 0
    /\ \E raised \in BOOLEAN :
          watcher' = [watcher EXCEPT !.running = @ - 1,
                                     !.task = IF raised THEN FALSE ELSE @]
    /\ UNCHANGED <<feed, issued, gist, tokens, retry, dates, disk, otherTask, cache, file, now, health, lastRet, pc, state,
                   enabled, entries, backlog, idx, plat, all_ok, cursorAtStart,
                   sentAtStart, failed, added, lastPartial, markedAtCrash,
                   snapshot, result, ncalls, nalerts>>

\* time passes, whatever the loop and the handlers are doing
TimePasses ==
    /\ now < MaxTicks * RSS_POLL_MINUTES * 60
    /\ now' = now + RSS_POLL_MINUTES * 30
    /\ UNCHANGED <<feed, issued, gist, tokens, retry, dates, disk, otherTask, cache, watcher, file, health, lastRet, pc, state,
                   enabled, entries, backlog, idx, plat, all_ok, cursorAtStart,
                   sentAtStart, failed, added, lastPartial, markedAtCrash,
                   snapshot, result, ncalls, nalerts>>

NextLoop ==
    \/ OnReadyFires
    \/ OnReadyStarts
    \/ LoopIterates
    \/ TickEnds
    \/ TimePasses

LoopSpec == Init /\ [][NextLoop]_vars

\* C20 -- No overlapping ticks: at most one execution of bergfrid_watcher
\* is in progress at any time, also while an iteration is overdue and after
\* on_ready has run more than once.
C20_NoOverlappingTicks == watcher.running <= 1

\* a tick is still running when the next iteration is due, and two
\* on_ready handlers have run
C20_Witness ==
    /\ watcher.running = 1
    /\ now >= watcher.next
    /\ \E g, h \in 1..MaxReady :
          g # h /\ watcher.ready[g] = "done" /\ watcher.ready[h] = "done"

(***************************************************************************)
(* Recovery when the cursor is not in the feed                             *)
(***************************************************************************)

\* a tick finds its cursor, which is set, in no entry of a snapshot of at
\* least one entry
CursorNotFoundStep == SeedStep /\ state.last_id # None

\* C21 -- Cursor-not-found recovery: a tick whose cursor is set and matches
\* no entry of a non-empty snapshot makes no publish call, sets the cursor
\* to the newest entry, leaves every entry of the snapshot in the sent list
\* of every enabled destination, and returns without dispatch or catch-up.
C21_CursorNotFoundSeeds ==
    [][CursorNotFoundStep =>
         /\ pc' = "idle"
         /\ added' = NoSets
         /\ failed' = NoSets
         /\ file'.last_id = snapshot'[1]
         /\ \A d \in enabled : \A x \in SeqToSet(snapshot') :
               sent_has(file', d, x)]_vars

\* the process is idle between two ticks: the site shows `fd` after `iss`
\* publications, the ledger file is one of `ledgers`, the monitor is fresh
InitIdle(fd, iss, ledgers) ==
    /\ feed = fd
    /\ issued = iss
    /\ gist = NoGist
    /\ otherTask = NoTask
    /\ disk = NoDisk
    /\ tokens = NoTokens
    /\ retry = NoRetry
    /\ dates = NoDates
    /\ cache = NoTokens
    /\ watcher = NoWatcher
    /\ file \in ledgers
    /\ state = empty_state
    /\ now = 0
    /\ health = empty_health
    /\ lastRet = FALSE
    /\ pc = "idle"
    /\ enabled = {}
    /\ entries = <<>>
    /\ backlog = <<>>
    /\ idx = 0
    /\ plat = 0
    /\ all_ok = TRUE
    /\ cursorAtStart = None
    /\ sentAtStart = empty_state.sent
    /\ failed = NoSets
    /\ added = NoSets
    /\ lastPartial = NoPartial
    /\ markedAtCrash = NoSets
    /\ snapshot = <<>>
    /\ result = "none"
    /\ ncalls = 0
    /\ nalerts = [p \in PLATFORMS |-> 0]

\* a feed one entry longer than the ring, newest first, whose oldest entry
\* is article 2: article 1 is no longer in the feed
LostCursorFeed == [i \in 1..(sent_ring_max + 1) |-> sent_ring_max + 3 - i]

\* ledgers whose cursor is article 1, with any sent lists within the ring
\* for discord and telegram
LostCursorLedgers ==
    {[last_id |-> 1,
      sent |-> [p \in PLATFORMS |->
                  IF p = "discord" THEN l1
                  ELSE IF p = "telegram" THEN l2 ELSE <<>>]] :
        l1, l2 \in {q \in BoundedSeq(1..3, sent_ring_max) : NoDuplicate(q)}}

InitRecover == InitIdle(LostCursorFeed, sent_ring_max + 2, LostCursorLedgers)

NextRecover == TickLoads \/ TickCursorNotFound \/ RetractArticle

RecoverSpec == InitRecover /\ [][NextRecover]_vars

\* the monitor call of this step is on platform p
MonitorCallOn(p) == SuccessCallOn(p) \/ FailureCallOn(p)

\* the record the monitor keeps of platform q
HealthOf(h, q) ==
    [failures |-> h.failures[q], alerted |-> h.alerted[q], last |-> h.last[q]]

\* C22 -- Health records are independent per platform: record_success(p)
\* and record_failure(p) leave the failure count, the alerted flag and the
\* last-failure time of every other platform as they were, and get_failures
\* of a platform that was never recorded is 0.
C22_PlatformsIndependent ==
    /\ [][\A p \in MonitoredPlatforms :
            MonitorCallOn(p) =>
               \A q \in PLATFORMS \ {p} : HealthOf(health', q) = HealthOf(health, q)]_vars
    /\ [](\A q \in PLATFORMS \ MonitoredPlatforms : get_failures(health, q) = 0)

\* the latest call recorded telegram while discord had failures, an alert
\* and a last-failure time, and telegram has a count of its own
C22_Witness ==
    /\ pc = "monitor"
    /\ plat = PubIndex("telegram")
    /\ health.failures["discord"] >= alert_threshold
    /\ health.alerted["discord"]
    /\ health.last["discord"] # NoTime
    /\ health.failures["telegram"] = 1

(***************************************************************************)
(* _seed_state_from_entries on any snapshot                                *)
(***************************************************************************)

\* feed snapshots: up to FeedLen entries, no entry twice
Snapshots == {q \in BoundedSeq(Ids, FeedLen) : q # <<>> /\ NoDuplicate(q)}

\* the enabled sets in which every platform has a publisher
ConfiguredSets == {en \in EnabledSets : en \subseteq PublisherNames}

InitSeed == InitIdle(<<>>, 0, FetchLedgers)

\* _seed_state_from_entries(entries, state, enabled) on the ledger of the file
SeedCall ==
    /\ pc = "idle"
    /\ \E ents \in Snapshots : \E en \in ConfiguredSets :
          /\ entries' = ents
          /\ enabled' = en
          /\ state' = seed_state_from_entries(ents, file, en)
          /\ file' = seed_state_from_entries(ents, file, en)
    /\ pc' = "seeded"
    /\ UNCHANGED <<feed, issued, gist, tokens, retry, dates, disk, otherTask, cache, watcher, now, health, lastRet, backlog,
                   idx, plat, all_ok, cursorAtStart, sentAtStart, failed, added,
                   lastPartial, markedAtCrash, snapshot, result, ncalls, nalerts>>

NextSeed == SeedCall

SeedSpec == InitSeed /\ [][NextSeed]_vars

\* C23 -- Seeding marks everything visible: after a seed over a snapshot of
\* any length, every entry of the snapshot is in the sent list of every
\* enabled destination, also when the snapshot is longer than the ring.
C23_SeedMarksAll ==
    pc = "seeded" =>
       \A d \in enabled : \A x \in SeqToSet(entries) : sent_has(state, d, x)

(***************************************************************************)
(* A backlog longer than MAX_BACKLOG_POSTS_PER_TICK                        *)
(***************************************************************************)

\* a feed of MAX_BACKLOG_POSTS_PER_TICK + 2 entries, newest first, down to
\* article 1
GapFeed ==
    [i \in 1..(MAX_BACKLOG_POSTS_PER_TICK + 2) |-> MAX_BACKLOG_POSTS_PER_TICK + 3 - i]

\* ledgers whose cursor is article 1, the oldest entry of GapFeed: article 1
\* was sent to telegram, and discord has any list within the ring
GapLedgers ==
    {[last_id |-> 1,
      sent |-> [p \in PLATFORMS |->
                  IF p = "discord" THEN l1
                  ELSE IF p = "telegram" THEN <<1>> ELSE <<>>]] :
        l1 \in {q \in BoundedSeq(1..2, sent_ring_max) : NoDuplicate(q)}}

InitGap == InitIdle(GapFeed, MAX_BACKLOG_POSTS_PER_TICK + 2, GapLedgers)

NextGap ==
    \/ TickLoads
    \/ TickBacklog
    \/ TickNoBacklog
    \/ PublishDispatch
    \/ AdvanceCursor
    \/ StopPartial
    \/ PublishCatchup

GapSpec == InitGap /\ [][NextGap]_vars

\* the backlog of the running tick before the truncation, in feed order
FullBacklog == feed_to_backlog(entries, cursorAtStart)

\* C24 -- Backlog bound: the dispatch loop of a tick handles at most
\* MAX_BACKLOG_POSTS_PER_TICK entries; when the backlog is longer they are
\* the newest ones, oldest first, and the dispatch loop publishes no entry
\* that the cursor has passed (the older entries that were dropped).
C24_BacklogBound ==
    pc = "dispatch" =>
       /\ Len(backlog) = Min(MAX_BACKLOG_POSTS_PER_TICK, Len(FullBacklog))
       /\ \A i \in 1..Len(backlog) : backlog[i] = entries[Len(backlog) + 1 - i]
       /\ plat <= NPub =>
             PosIn(entries, CallItem) < PosIn(entries, state.last_id)

\* a later tick is in its dispatch loop after the cursor has passed an
\* entry that was dropped and that some enabled platform was never sent
C24_Witness ==
    /\ pc = "dispatch"
    /\ plat <= NPub
    /\ cursorAtStart > 1
    /\ \E x \in SeqToSet(entries) : \E d \in enabled \cap PublisherNames :
          /\ PosIn(entries, x) > PosIn(entries, state.last_id)
          /\ x > 1
          /\ ~sent_has(state, d, x)

(***************************************************************************)
(* The publish calls of one tick                                           *)
(***************************************************************************)

\* the ids for which the running tick has already called publish on d
CalledOn(d) == failed[d] \cup added[d]

\* C25 -- Within-destination ordering: the publish calls a tick (dispatch
\* loop, then catch-up pass) makes to one destination go from older to newer
\* articles; no destination is sent an article after a newer one.
C25_OldestFirstPerDestination ==
    Calling => \A y \in CalledOn(CallPlatform) : y <= CallItem

\* C26 -- The catch-up pass leaves the cursor, etag and modified as they
\* are, calls publish only for an article that the sent list of the
\* destination lacks, and puts an id into a sent list only when the publish
\* call for it on that destination has just returned success.
C26_CatchupFrame ==
    /\ [][pc = "catchup" =>
            /\ state'.last_id = state.last_id
            /\ file'.last_id = file.last_id
            /\ tokens' = tokens
            /\ cache' = cache
            /\ \A d \in PLATFORMS : \A x \in 1..issued :
                  (sent_has(state', d, x) /\ ~sent_has(state, d, x))
                  => (d = CallPlatform /\ x = CallItem /\ result' = "ok")]_vars
    /\ [](pc = "catchup" => ~sent_has(state, CallPlatform, CallItem))

\* a tick without backlog is in its catch-up pass and has marked an article
\* sent after a successful publish
C26_Witness ==
    /\ pc = "catchup"
    /\ cursorAtStart = entries[1]
    /\ result = "ok"
    /\ \E d \in enabled : added[d] # {}

(***************************************************************************)
(* Retry on the next tick: a fixed feed, a fixed enabled set, publishers    *)
(* that fail for a while and then succeed                                  *)
(***************************************************************************)

\* the "enabled" list of publish_targets.json in these runs: both have a
\* publisher
LiveEnabled == {"discord", "telegram"}

\* ledgers whose cursor is article 1, the oldest entry of GapFeed: article 1
\* was sent to telegram and to mastodon, which is configured and no longer
\* enabled; discord has any list within the ring
LiveLedgers ==
    {[last_id |-> 1,
      sent |-> [p \in PLATFORMS |->
                  IF p = "discord" THEN l1
                  ELSE IF p \in {"telegram", "mastodon"} THEN <<1>> ELSE <<>>]] :
        l1 \in {q \in BoundedSeq(1..2, sent_ring_max) : NoDuplicate(q)}}

InitLive == InitIdle(GapFeed, MAX_BACKLOG_POSTS_PER_TICK + 2, LiveLedgers)

\* the publishers fail at will during the first MaxTicks poll intervals, and
\* succeed from then on
PublishRecovered == now >= MaxTicks * RSS_POLL_MINUTES * 60

\* the clock of these runs counts MaxTicks poll intervals and then stays;
\* the ticks go on
NextLive ==
    \/ TickLoadsAt(LiveEnabled,
                   IF now < MaxTicks * RSS_POLL_MINUTES * 60
                   THEN now + RSS_POLL_MINUTES * 60 ELSE now)
    \/ TickNoBacklog
    \/ TickBacklog
    \/ PublishDispatch /\ (PublishRecovered => result' = "ok")
    \/ AdvanceCursor
    \/ StopPartial
    \/ PublishCatchup /\ (PublishRecovered => result' = "ok")

\* ticks keep being scheduled and every await of a tick returns
LiveSpec == InitLive /\ [][NextLive]_vars /\ WF_vars(NextLive)

\* the backlog of the first tick after the truncation
FirstBacklog == SeqToSet(truncate_backlog(feed_to_backlog(GapFeed, 1)))

\* the cursor is on the newest entry and every entry of the first backlog
\* is in the sent list of every platform of `dests`
Delivered(dests) ==
    /\ file.last_id = GapFeed[1]
    /\ \A d \in dests : \A x \in FirstBacklog : sent_has(file, d, x)

\* the cursor reaches the newest entry, and every entry of the bounded
\* backlog gets into the sent list of every enabled destination at some
\* moment
EachEventuallySent ==
    /\ <>(file.last_id = GapFeed[1])
    /\ \A d \in LiveEnabled : \A x \in FirstBacklog : <>sent_has(file, d, x)

\* C27 -- Eventual delivery by retry on the next tick: with a fixed feed and
\* a fixed enabled set, ticks that keep coming and publishers that end up
\* succeeding, a moment comes at which the cursor is on the newest entry
\* and every entry of the bounded backlog is in the sent list of every
\* enabled destination.
C27_EventualDeliveryEnabled == <>Delivered(LiveEnabled)

\* C28 -- No retry inside a tick: a tick (dispatch loop plus catch-up pass)
\* calls publish at most once for a pair of article and destination.
C28_OncePerTick == Calling => CallItem \notin CalledOn(CallPlatform)

(***************************************************************************)
(* A publisher that keeps failing on one article                           *)
(***************************************************************************)

\* a feed of MAX_BACKLOG_POSTS_PER_TICK + 1 entries, newest first: with the
\* cursor on the oldest the backlog is as long as a tick may handle
BlockFeed ==
    [i \in 1..(MAX_BACKLOG_POSTS_PER_TICK + 1) |->
        MAX_BACKLOG_POSTS_PER_TICK + 2 - i]

\* the ledger whose cursor is article 1, sent to discord and to telegram
BlockLedgers ==
    {[last_id |-> 1,
      sent |-> [p \in PLATFORMS |->
                  IF p \in {"discord", "telegram"} THEN <<1>> ELSE <<>>]]}

InitBlock == InitIdle(BlockFeed, MAX_BACKLOG_POSTS_PER_TICK + 1, BlockLedgers)

\* the site publishes one more article between two ticks; the feed grows by
\* one entry, or keeps its length and loses its oldest entry
LateArticle ==
    /\ pc = "idle"
    /\ issued < MAX_BACKLOG_POSTS_PER_TICK + 2
    /\ issued' = issued + 1
    /\ \E slides \in BOOLEAN :
         feed' = <<issued + 1>> \o
                 (IF slides THEN SubSeq(feed, 1, Len(feed) - 1) ELSE feed)
    /\ lastPartial' = NoPartial
    /\ UNCHANGED markedAtCrash
    /\ UNCHANGED <<gist, tokens, retry, dates, disk, otherTask, watcher, cache, file, now, health, lastRet, pc, state, idx, plat, ncalls,
                   nalerts>>
    /\ UNCHANGED tickLocals
    /\ UNCHANGED history

\* the routing configurations a tick of these runs may read: telegram, on
\* which the tick before failed, is still enabled or no longer
BlockEnabledSets == {{"discord", "telegram"}, {"discord", "mastodon"}}

NextBlock ==
    \/ LateArticle
    \/ TickCursorNotFound
    \/ \E en \in BlockEnabledSets : TickLoadsWith(en)
    \/ TickBacklog
    \/ TickNoBacklog
    \/ PublishDispatch
    \/ AdvanceCursor
    \/ StopPartial
    \/ PublishCatchup

BlockSpec == InitBlock /\ [][NextBlock]_vars

\* the next tick awaits its fetch: the dispatch loop of the last tick
\* stopped on article x because publish(x) failed on d
Blocked(d, x) == pc = "fetching" /\ x \in failed[d] /\ file.last_id < x

\* x is an entry of the feed after the cursor
AfterCursor(x) ==
    /\ file.last_id \in SeqToSet(feed)
    /\ x \in SeqToSet(feed)
    /\ PosIn(feed, x) < PosIn(feed, file.last_id)

\* x is one of the entries the truncation keeps
InWindow(x) == PosIn(feed, x) <= MAX_BACKLOG_POSTS_PER_TICK

\* while a tick is in the dispatch loop, an article that failed on some
\* destination is the article in hand, and the cursor is before it
StoppedAtFailure ==
    pc = "dispatch" =>
       \A d \in PLATFORMS : \A x \in failed[d] :
          x = backlog[idx] /\ file.last_id < x

\* the step in which the fetch returns while d is blocked on x and stays
\* enabled leaves the cursor before x, and the dispatch loop it starts
\* begins no later than x
HeldBack(d, x) ==
    /\ file'.last_id < x
    /\ pc' = "dispatch" => backlog'[idx'] <= x

\* C29 -- Head-of-line blocking: as long as an enabled destination keeps
\* failing on article x, x staying in the feed after the cursor and among the
\* MAX_BACKLOG_POSTS_PER_TICK newest entries, no tick moves the cursor to x
\* or beyond and the dispatch loop sends no newer article.
C29_HeadOfLine ==
    /\ []StoppedAtFailure
    /\ [][\A d \in PLATFORMS : \A x \in failed[d] :
             (/\ Blocked(d, x) /\ AfterCursor(x) /\ InWindow(x)
              /\ pc' = "dispatch" => d \in enabled')
             => HeldBack(d, x)]_vars

\* C29 as stated: x staying in the feed after the cursor, wherever.
C29_HeadOfLineAnywhere ==
    /\ []StoppedAtFailure
    /\ [][\A d \in PLATFORMS : \A x \in failed[d] :
             (/\ Blocked(d, x) /\ AfterCursor(x)
              /\ pc' = "dispatch" => d \in enabled')
             => HeldBack(d, x)]_vars

\* a second tick in a row has just failed on the same article and the same
\* destination, after a new article arrived
C29_Witness ==
    /\ pc = "dispatch"
    /\ issued = MAX_BACKLOG_POSTS_PER_TICK + 2
    /\ \E d \in enabled :
         /\ backlog[idx] \in failed[d]
         /\ health.failures[d] >= 2

(***************************************************************************)
(* The watcher beside the tasks that load and save the ledger file         *)
(***************************************************************************)

\* the feed and the routing configuration of these runs
InterFeed == <<2, 1>>
InterEnabled == {"discord", "telegram"}

\* article 1 was published to discord and to telegram
InterLedgers ==
    {[last_id |-> 1,
      sent |-> [p \in PLATFORMS |->
                  IF p \in InterEnabled THEN <<1>> ELSE <<>>]]}

InitInter == InitIdle(InterFeed, Len(InterFeed), InterLedgers)

NextInter ==
    \/ TaskLoads
    \/ TaskSaves
    \/ OnReadyFires
    \/ OnReadyStarts
    \/ TickLoadsWith(InterEnabled)
    \/ TickBacklog
    \/ TickNoBacklog
    \/ PublishDispatch
    \/ AdvanceCursor
    \/ StopPartial

InterSpec == InitInter /\ [][NextInter]_vars

\* the step is the save of a task other than the watcher
TaskSaveStep == Len(otherTask') < Len(otherTask)

\* C30 -- No lost ledger update across tasks: the save of another task
\* removes no id from a sent list of the ledger file and does not move the
\* cursor back.
C30_NoLostUpdate ==
    [][TaskSaveStep =>
          /\ \A d \in PLATFORMS : \A x \in SeqToSet(file.sent[d]) :
                sent_has(file', d, x)
          /\ file'.last_id >= file.last_id]_vars

\* the ledger file has lost a mark of the tick that has just returned
C30_LostAfterTick ==
    /\ pc = "idle"
    /\ otherTask = NoTask
    /\ \E d \in InterEnabled : \E x \in added[d] : ~sent_has(file, d, x)

(***************************************************************************)
(* core/state.py: _atomic_write_json, one system call at a time            *)
(***************************************************************************)

\* number of write calls json.dump makes on the .tmp file
Chunks == 2
\* number of save calls of a run
MaxSaves == 2

\* the ledgers given to save
AtomicInputs ==
    {[last_id |-> c,
      sent |-> [p \in PLATFORMS |-> IF p = "discord" THEN l ELSE <<>>]] :
        c \in {None, 1, 2},
        l \in {<<>>, <<1>>, <<1, 2>>, <<1, 2, 3>>}}

InitAtomic ==
    /\ InitRest
    /\ pc = "save"
    /\ state \in AtomicInputs

\* what stays as it is while save runs
AtomicFrame ==
    UNCHANGED <<feed, issued, gist, tokens, retry, dates, otherTask, watcher, cache, now, health, lastRet, enabled,
                entries, backlog, idx, plat, all_ok, cursorAtStart, sentAtStart,
                failed, added, lastPartial, markedAtCrash, snapshot, nalerts>>

\* save, lines 94-99, then open(tmp, "w"), line 11: the file is created or
\* emptied, or open raises OSError, which save logs before it returns
SaveOpens ==
    /\ pc = "save"
    /\ state' = save(state)
    /\ \E ok \in BOOLEAN :
         IF ok
         THEN /\ disk' = [disk EXCEPT !.tmp = [exists |-> TRUE,
                                               doc |-> save(state),
                                               written |-> 0]]
              /\ pc' = "writing"
              /\ result' = "none"
         ELSE /\ pc' = "returned"
              /\ result' = "OSError"
              /\ UNCHANGED disk
    /\ UNCHANGED <<file, ncalls>>
    /\ AtomicFrame

\* json.dump, line 12: one more write on the .tmp file, or the write raises
\* OSError; the with block closes the file and save logs and returns
SaveWrites ==
    /\ pc = "writing"
    /\ disk.tmp.written < Chunks
    /\ \E ok \in BOOLEAN :
         IF ok
         THEN /\ disk' = [disk EXCEPT !.tmp.written = @ + 1]
              /\ UNCHANGED <<pc, result>>
         ELSE /\ pc' = "returned"
              /\ result' = "OSError"
              /\ UNCHANGED disk
    /\ UNCHANGED <<file, state, ncalls>>
    /\ AtomicFrame

\* os.replace(tmp, path), line 13: the .tmp file takes the place of the
\* ledger file
replace(d) == [path |-> d.tmp, tmp |-> AbsentFile]

\* line 13 once json.dump has returned and the file is closed: the rename,
\* or os.replace raises OSError and save logs and returns
SaveReplaces ==
    /\ pc = "writing"
    /\ disk.tmp.written = Chunks
    /\ \E ok \in BOOLEAN :
         IF ok
         THEN /\ disk' = replace(disk)
              /\ file' = replace(disk).path.doc
              /\ pc' = "saved"
              /\ result' = "ok"
         ELSE /\ pc' = "returned"
              /\ result' = "OSError"
              /\ UNCHANGED <<disk, file>>
    /\ UNCHANGED <<state, ncalls>>
    /\ AtomicFrame

\* the process dies between two system calls of _atomic_write_json
SaveCrash ==
    /\ pc = "writing"
    /\ pc' = "crashed"
    /\ result' = "crashed"
    /\ state' = empty_state
    /\ UNCHANGED <<disk, file, ncalls>>
    /\ AtomicFrame

\* the next save call, of the same process or of the one started after
\* the crash
SaveAgain ==
    /\ pc \in {"saved", "returned", "crashed"}
    /\ ncalls < MaxSaves - 1
    /\ ncalls' = ncalls + 1
    /\ pc' = "save"
    /\ state' \in AtomicInputs
    /\ UNCHANGED <<disk, file, result>>
    /\ AtomicFrame

NextAtomic ==
    \/ SaveOpens
    \/ SaveWrites
    \/ SaveReplaces
    \/ SaveCrash
    \/ SaveAgain

AtomicSpec == InitAtomic /\ [][NextAtomic]_vars

\* the ledger file is absent or a whole document
PathComplete == disk.path.exists => disk.path.written = Chunks

\* a step leaves the ledger file as it is or puts the whole new ledger there
OldOrNew ==
    \/ disk'.path = disk.path
    \/ disk'.path = [exists |-> TRUE, doc |-> state, written |-> Chunks]

\* C31 -- Atomic ledger write: whatever step of save the process dies at,
\* the ledger file holds the whole ledger saved before or the whole new one,
\* never a part of a document, and a save that has returned leaves no .tmp
\* file.
C31_AtomicWrite ==
    /\ []PathComplete
    /\ [][OldOrNew]_vars
    /\ [](pc \in {"saved", "returned"} => ~disk.tmp.exists)

\* the part of C31 that is about the ledger file alone
C31_LedgerFileAtomic == []PathComplete /\ [][OldOrNew]_vars

(***************************************************************************)
(* core/state.py: save, then load, then save again                         *)
(***************************************************************************)

\* the ledgers given to save, with `cache` as their etag and modified: a
\* counting list for discord, up to two entries past the ring, and any short
\* list for telegram
RoundInputs ==
    {[last_id |-> c,
      sent |-> [p \in PLATFORMS |->
                  IF p = "discord" THEN Counting(k)
                  ELSE IF p = "telegram" THEN l ELSE <<>>]] :
        c \in {None, 1},
        k \in 0..(sent_ring_max + 2),
        l \in {<<>>, <<2>>, <<2, 1>>}}

\* json.dump(state): the document of the ledger with its two tokens
dump(st, c) ==
    [kind |-> "object", has_last |-> TRUE, last_id |-> st.last_id,
     has_etag |-> TRUE, etag |-> c.etag,
     has_modified |-> TRUE, modified |-> c.modified,
     sent_kind |-> "dict", keys |-> PLATFORMS, lists |-> st.sent]

\* StateStore._normalize, lines 56-57: the tokens of a loaded document
normalize_tokens(doc) ==
    [etag |-> IF doc.has_etag THEN doc.etag ELSE None,
     modified |-> IF doc.has_modified THEN doc.modified ELSE None]

\* the ledger file before the first save is absent, or the document of an
\* earlier ledger
InitRound ==
    /\ feed = <<>>
    /\ issued = 0
    /\ gist = NoGist
    /\ otherTask = NoTask
    /\ disk = NoDisk
    /\ tokens = NoTokens
    /\ retry = NoRetry
    /\ dates = NoDates
    /\ watcher = NoWatcher
    /\ cache = NoTokens
    /\ file \in
          {[kind |-> "missing", has_last |-> FALSE, last_id |-> None,
            has_etag |-> FALSE, etag |-> None,
            has_modified |-> FALSE, modified |-> None,
            sent_kind |-> "absent", keys |-> {}, lists |-> empty_state.sent],
           dump([last_id |-> 2,
                 sent |-> [p \in PLATFORMS |->
                             IF p = "discord" THEN <<2>> ELSE <<>>]],
                [etag |-> 1, modified |-> None])}
    /\ now = 0
    /\ health = empty_health
    /\ lastRet = FALSE
    /\ enabled = {}
    /\ entries = <<>>
    /\ backlog = <<>>
    /\ idx = 0
    /\ plat = 0
    /\ all_ok = TRUE
    /\ cursorAtStart = None
    /\ sentAtStart = empty_state.sent
    /\ failed = NoSets
    /\ added = NoSets
    /\ lastPartial = NoPartial
    /\ markedAtCrash = NoSets
    /\ snapshot = <<>>
    /\ result = "none"
    /\ ncalls = 0
    /\ nalerts = [p \in PLATFORMS |-> 0]
    /\ pc = "save"
    /\ state \in RoundInputs

\* what the three calls leave as it is
RoundFrame ==
    UNCHANGED <<feed, issued, gist, tokens, retry, dates, disk, otherTask, watcher, now, health, lastRet, enabled,
                entries, backlog, idx, plat, all_ok, cursorAtStart, failed, added,
                lastPartial, markedAtCrash, snapshot, ncalls, nalerts>>

\* the ledger in memory gets its tokens
RoundTokens ==
    /\ pc = "save"
    /\ cache = NoTokens
    /\ cache' \in Tokens \ {NoTokens}
    /\ UNCHANGED <<file, pc, state, sentAtStart, result>>
    /\ RoundFrame

\* state_store.save(s), lines 94-103: the lists are cut in s, then the
\* document is written, or _atomic_write_json raises OSError, which save
\* logs before it returns, the ledger file left as it was
RoundSave ==
    /\ pc = "save"
    /\ pc' = "saved"
    /\ sentAtStart' = state.sent
    /\ state' = save(state)
    /\ \E ok \in BOOLEAN :
          /\ file' = IF ok THEN dump(save(state), cache) ELSE file
          /\ result' = IF ok THEN "ok" ELSE "OSError"
    /\ UNCHANGED cache
    /\ RoundFrame

\* state_store.load() right after it: the ledger and the tokens of the
\* document in the file, the empty ledger when there is no file
RoundLoad ==
    /\ pc = "saved"
    /\ pc' = "loaded"
    /\ state' = load(file, gist).st
    /\ cache' = IF file.kind = "object" THEN normalize_tokens(file)
                ELSE NoTokens
    /\ UNCHANGED <<file, sentAtStart, result>>
    /\ RoundFrame

\* state_store.save() of the ledger that was loaded, with the same two ends
RoundSaveAgain ==
    /\ pc = "loaded"
    /\ pc' = "resaved"
    /\ state' = save(state)
    /\ \E ok \in BOOLEAN :
          /\ file' = IF ok THEN dump(save(state), cache) ELSE file
          /\ UNCHANGED result
    /\ UNCHANGED <<cache, sentAtStart>>
    /\ RoundFrame

NextRound ==
    \/ RoundTokens
    \/ RoundSave
    \/ RoundLoad
    \/ RoundSaveAgain

RoundSpec == InitRound /\ [][NextRound]_vars

\* the last sent_ring_max entries of a list
LastOfRing(lst) ==
    IF Len(lst) <= sent_ring_max THEN lst
    ELSE [i \in 1..sent_ring_max |-> lst[Len(lst) - sent_ring_max + i]]

\* C32 -- Save/load round trip: load right after save(s) returns the
\* last_id, etag and modified of s and, for every platform, the last
\* sent_ring_max entries of the sent list of s; saving the loaded ledger
\* again changes neither the file nor the ledger.
C32_RoundTrip ==
    /\ [][pc = "saved" /\ pc' = "loaded" =>
             /\ state'.last_id = state.last_id
             /\ cache' = cache
             /\ \A p \in PLATFORMS :
                   state'.sent[p] = LastOfRing(sentAtStart[p])]_vars
    /\ [][pc = "loaded" /\ pc' = "resaved" =>
             file' = file /\ state' = state]_vars

\* the round trip of a save that wrote the file: what C32 says of every save
RoundTripWhenWritten ==
    /\ [][pc = "saved" /\ result = "ok" /\ pc' = "loaded" =>
             /\ state'.last_id = state.last_id
             /\ cache' = cache
             /\ \A p \in PLATFORMS :
                   state'.sent[p] = LastOfRing(sentAtStart[p])]_vars
    /\ [][pc = "loaded" /\ result = "ok" /\ pc' = "resaved" =>
             file' = file /\ state' = state]_vars

\* C33 -- is_in_cooldown(d) is true exactly when the consecutive-failure
\* count of d is at least the alert threshold and the time elapsed since the
\* last recorded failure of d is less than min(failures * 2 minutes, cap); it
\* is false for every platform below the threshold and for every platform
\* with no recorded failure.
C33_CooldownExact ==
    /\ [][result' = "checked" =>
             LET n       == health.failures["discord"]
                 elapsed == now - health.last["discord"]
                 limit   == IF n * 2 * 60 <= cooldown_max_minutes * 60
                            THEN n * 2 * 60
                            ELSE cooldown_max_minutes * 60
             IN lastRet' = (/\ n >= alert_threshold
                            /\ health.last["discord"] # NoTime
                            /\ elapsed < limit)]_vars
    /\ [](\A p \in PLATFORMS :
             (health.failures[p] < alert_threshold \/ health.last[p] = NoTime)
                 => ~is_in_cooldown(health, p, now))

\* is_in_cooldown has returned false at the capped duration, before the
\* uncapped duration of the failure count has elapsed
C33_Witness ==
    /\ pc = "cooldown"
    /\ result = "checked"
    /\ ~lastRet
    /\ health.failures["discord"] >= alert_threshold
    /\ now - health.last["discord"] >= cooldown_max_minutes * 60
    /\ now - health.last["discord"] < health.failures["discord"] * 120

\* C34 -- Health-state invariant: for an alert threshold of at least 1,
\* after every record_failure or record_success call the alerted flag of a
\* platform is true if and only if its consecutive-failure count is at least
\* the threshold; a count at or over the threshold with the alert not yet
\* fired is never observable between operations.
C34_AlertedIffOverThreshold ==
    alert_threshold >= 1 =>
        \A p \in PLATFORMS :
            health.alerted[p] <=> (health.failures[p] >= alert_threshold)

\* a platform has gone on failing after its alert fired, and the latest call
\* was a record_failure that did not fire again
C34_Witness ==
    /\ pc = "monitor"
    /\ result = "failed"
    /\ ~lastRet
    /\ health.failures[publishers[plat]] > alert_threshold
    /\ health.alerted[publishers[plat]]
    /\ nalerts[publishers[plat]] = 1

(***************************************************************************)
(* A fresh deployment on a feed that gets no new article                   *)
(***************************************************************************)

\* the feed documents of the site: newest entry first
HistoryFeeds ==
    {q \in Snapshots : \A i \in 1..(Len(q) - 1) : q[i] > q[i + 1]}

InitHistory == \E fd \in HistoryFeeds : InitIdle(fd, MaxId, {empty_state})

NextHistory ==
    \/ TickLoads
    \/ TickColdStart
    \/ TickNoBacklog
    \/ PublishCatchup

HistorySpec == InitHistory /\ [][NextHistory]_vars

\* C35 -- History stays unpublished after a seed: after a cold-start seed,
\* as long as the feed snapshot contains no item newer than the seeded
\* cursor, no later tick calls publish on any destination, including a
\* destination that is added to the enabled set after the seed.
C35_HistoryUnpublished ==
    (file.last_id # None /\ file.last_id = feed[1]) => ~Calling

(***************************************************************************)
(* publishers/telegram_pub.py: one publish call and its HTTP attempts      *)
(***************************************************************************)

\* PUBLISH_MAX_RETRIES, the max_retries of the publishers
max_retries == 3

\* What one sess.post of _send_with_retry comes back with: a 200 whose body
\* has result.message_id, a 200 whose JSON has no message_id, a 200 whose
\* body does not parse, a status 429, a status of 500 or more, a 4xx other
\* than 429, a 3xx, asyncio.TimeoutError, any other exception.
Responses ==
    {"200", "200_no_id", "200_unparsed", "429", "5xx", "4xx", "3xx",
     "timeout", "exception"}

\* a loop that goes on to the next attempt after every response but a 200
retries_every_error(r) ==
    r \notin {"200", "200_no_id", "200_unparsed"}

\* lines 59-94: the branches of the loop body that end in `continue`
retries(r) == r \in {"429", "5xx", "timeout", "exception"}

\* lines 49-56: the value the 200 branch returns
message_id(r) ==
    CASE r = "200"          -> "id"
      [] r = "200_no_id"    -> "None"
      [] r = "200_unparsed" -> "-1"
      [] OTHER              -> "None"

\* lines 160-202: publish turns the outcome of its body into its return
\* value; `raised` is an exception thrown anywhere inside the try block
publish_returns(msg, raised) ==
    [ret |-> ~raised /\ msg # "None", raised |-> FALSE]

InitRetry ==
    /\ InitRest
    /\ pc = "publish"
    /\ state = empty_state

RetryFrame ==
    UNCHANGED <<feed, issued, gist, tokens, dates, disk, otherTask, cache, watcher,
                file, now, health, state, enabled, entries, backlog, idx,
                plat, all_ok, cursorAtStart, sentAtStart, failed, added,
                lastPartial, markedAtCrash, snapshot, ncalls, nalerts>>

\* publish returns to its caller
PublishReturns(msg, raised) ==
    /\ pc' = "returned"
    /\ lastRet' = publish_returns(msg, raised).ret
    /\ result' = IF publish_returns(msg, raised).raised THEN "raised"
                 ELSE "returned"

\* lines 160-190 and 44-48: publish builds the message and calls
\* _send_with_retry, which gets the session and enters its loop
PublishBegins ==
    /\ pc = "publish"
    /\ \/ \* add_utm or _build_caption raises
          /\ PublishReturns("None", TRUE)
          /\ UNCHANGED retry
       \/ \* aiohttp is missing: _ensure_session returns None
          /\ PublishReturns("None", FALSE)
          /\ UNCHANGED retry
       \/ /\ max_retries >= 1
          /\ pc' = "post"
          /\ retry' = [retry EXCEPT !.attempt = 1]
          /\ UNCHANGED <<lastRet, result>>
    /\ RetryFrame

\* lines 48-99: one pass of the loop body, the sleep before the next pass
\* included
SendAttempt ==
    /\ pc = "post"
    /\ \E r \in Responses :
          LET sent == [retry EXCEPT !.posts = @ + 1,
                                    !.responses = Append(@, r),
                                    !.msg_id = message_id(r)]
          IN IF r \in {"200", "200_unparsed"}
             THEN /\ retry' = sent
                  /\ pc' = "react"
                  /\ UNCHANGED <<lastRet, result>>
             ELSE IF retries(r) /\ retry.attempt < max_retries
             THEN /\ retry' = [sent EXCEPT !.attempt = @ + 1]
                  /\ pc' = "post"
                  /\ UNCHANGED <<lastRet, result>>
             ELSE /\ retry' = sent
                  /\ PublishReturns(message_id(r), FALSE)
    /\ RetryFrame

\* lines 192-195 and 100-119: publish calls set_reaction, which returns at
\* once for the id -1, swallows what its own post raises, and lets an
\* exception of _ensure_session through to publish
SetReaction ==
    /\ pc = "react"
    /\ \E raised \in BOOLEAN :
          /\ raised => retry.msg_id # "-1"
          /\ PublishReturns(retry.msg_id, raised)
    /\ UNCHANGED retry
    /\ RetryFrame

NextRetry == PublishBegins \/ SendAttempt \/ SetReaction

RetrySpec == InitRetry /\ [][NextRetry]_vars

\* the responses the attempts of the call have got so far, the latest one,
\* and the responses after which the claim allows another attempt
Attempts == Len(retry.responses)
LastGot == retry.responses[Attempts]
Retried == {"429", "5xx", "timeout", "exception"}

\* C36 -- Bounded publisher retry: one TelegramPublisher._send_with_retry
\* call makes at most max_retries HTTP attempts and then returns failure; it
\* stops after the first attempt on a 4xx response other than 429, retries
\* only on 429, 5xx, timeout or exception, and publish reports every failure
\* as the value false rather than raising.
C36_BoundedRetry ==
    /\ [](retry.posts <= max_retries /\ retry.posts = Attempts)
    /\ []((pc = "returned" /\ Attempts = max_retries /\ LastGot \in Retried)
             => ~lastRet)
    /\ [](\A i \in 1..Attempts :
             retry.responses[i] = "4xx" =>
                 i = Attempts /\ pc = "returned" /\ ~lastRet)
    /\ [][retry'.posts = retry.posts + 1 /\ Attempts >= 1 =>
             LastGot \in Retried]_vars
    /\ [](pc = "returned" =>
             /\ result = "returned"
             /\ retry.msg_id \notin {"id", "-1"} => ~lastRet)

\* publish has returned false after max_retries attempts, the last of which
\* got a 429
C36_Witness ==
    /\ pc = "returned"
    /\ result = "returned"
    /\ ~lastRet
    /\ retry.posts = max_retries
    /\ retry.responses[max_retries] = "429"
    /\ retry.responses[1] = "timeout"

(***************************************************************************)
(* nightly_promo and the watcher on the date keys of the ledger            *)
(***************************************************************************)

\* the dates explored, and the number of promo dispatches explored
MaxDays == 2
MaxPromos == 3

\* the clock passes midnight
Midnight ==
    /\ dates.today < MaxDays
    /\ dates' = [dates EXCEPT !.today = @ + 1]
    /\ UNCHANGED <<otherTask, file, cache, result>>
    /\ TaskFrame

\* the promo is due for a ledger with these date keys
promo_due(keys, today) ==
    keys.published = today /\ keys.promo # today

\* nightly_promo, lines 673-693: load, the two skips, the start of the
\* dispatch
PromoRuns ==
    /\ WatcherSuspended
    /\ ~InFlight("nightly_promo")
    /\ Len(dates.dispatched) < MaxPromos
    /\ IF promo_due(dates.file, dates.today)
       THEN /\ Len(otherTask) < MaxInFlight
            /\ otherTask' =
                 Append(otherTask,
                        Copy("nightly_promo",
                             [dates.file EXCEPT !.promo = dates.today]))
            /\ dates' = [dates EXCEPT !.dispatched = Append(@, dates.today)]
            /\ result' = "dispatch"
       ELSE /\ result' = "skip"
            /\ UNCHANGED <<otherTask, dates>>
    /\ UNCHANGED <<file, cache>>
    /\ TaskFrame

\* nightly_promo, lines 697-698: the sends are over, the task stores the date
\* it read at its start and saves its copy of the ledger
PromoSaves ==
    /\ WatcherSuspended
    /\ \E i \in 1..Len(otherTask) :
          /\ otherTask[i].name = "nightly_promo"
          /\ otherTask' = Dropped(i)
          /\ file' = save(otherTask[i].state)
          /\ cache' = otherTask[i].cache
          /\ dates' = [dates EXCEPT !.file = otherTask[i].keys]
    /\ result' = "saved"
    /\ TaskFrame

\* the feed of these runs keeps article 1 and gets article 2, then article 3
InitPromo == InitIdle(<<1>>, 1, InterLedgers)

NextPromo ==
    \/ Midnight
    \/ NewArticle
    \/ TickLoadsWith(InterEnabled)
    \/ TickBacklog
    \/ TickNoBacklog
    \/ PublishDispatch
    \/ AdvanceCursor
    \/ StopPartial
    \/ PromoRuns
    \/ PromoSaves

PromoSpec == InitPromo /\ [][NextPromo]_vars

\* the promo went out on date d
DispatchedOn(d) ==
    \E i \in 1..Len(dates.dispatched) : dates.dispatched[i] = d

\* the promo went out only on dates on which the watcher marked a publication
OnlyOnMarkedDates ==
    \A d \in 1..MaxDays : DispatchedOn(d) => d \in dates.marked

\* C37 -- The nightly promo is dispatched at most once per calendar date and
\* only on a date on which the watcher marked at least one successful
\* article publication, across any sequence of nightly_promo runs and
\* watcher ticks.
C37_PromoOncePerDate ==
    /\ \A i, j \in 1..Len(dates.dispatched) :
          i # j => dates.dispatched[i] # dates.dispatched[j]
    /\ OnlyOnMarkedDates

(***************************************************************************)
(* The rsssync command beside the watcher                                  *)
(***************************************************************************)

InitSync == InitIdle(InterFeed, Len(InterFeed), InterLedgers)

NextSync ==
    \/ RssSyncLoads
    \/ RssSyncSaves
    \/ TickLoadsWith(InterEnabled)
    \/ TickBacklog
    \/ TickNoBacklog
    \/ PublishDispatch
    \/ AdvanceCursor
    \/ StopPartial
    \/ PublishCatchup

SyncSpec == InitSync /\ [][NextSync]_vars

\* the step is the end of an rsssync command
RssSyncStep == Len(otherTask') < Len(otherTask)

\* C38 -- The rsssync command makes no publish call and changes only the
\* cursor (set to the id of the newest feed item) and the cache tokens;
\* the sent list of every destination is left unchanged, and when the feed
\* is empty or unreachable the cursor is left unchanged too.
C38_RssSyncFrame ==
    [][RssSyncStep =>
          /\ failed' = failed /\ added' = added /\ pc' = pc
          /\ file'.sent = file.sent
          /\ result' = "entries" => file'.last_id = feed[1]
          /\ result' # "entries" => file'.last_id = file.last_id]_vars

(***************************************************************************)
(* core/rss.py: the identifier of a feed entry                             *)
(***************************************************************************)

\* An entry attribute that is not there, and one that is there with the
\* value None; the other values are strings, "" the empty one.
Missing == "<missing>"
PyNone == "<None>"

\* str(v)
str(v) == IF v = PyNone THEN "None" ELSE v

\* `if v:` on getattr(entry, attr, None)
truthy(v) == v \notin {Missing, PyNone, ""}

\* an _entry_id that looks at link first, then guid, then id
entry_id_link_first(entry) ==
    IF truthy(entry.link) THEN str(entry.link)
    ELSE IF truthy(entry.guid) THEN str(entry.guid)
    ELSE IF truthy(entry.id) THEN str(entry.id)
    ELSE IF entry.title = Missing THEN str("unknown") ELSE str(entry.title)

\* lines 15-20
entry_id(entry) ==
    IF truthy(entry.id) THEN str(entry.id)
    ELSE IF truthy(entry.guid) THEN str(entry.guid)
    ELSE IF truthy(entry.link) THEN str(entry.link)
    ELSE IF entry.title = Missing THEN str("unknown") ELSE str(entry.title)

\* the entries of a parsed feed: any id, guid and link, with or without title
FieldValues == {PyNone, "", "a", "b"}
TitleValues == {Missing, PyNone, "", "t"}
Entries == [id : FieldValues, guid : FieldValues, link : FieldValues,
            title : TitleValues]

\* the entries the site adds later
LaterEntries ==
    [id : {PyNone, "a", "b"}, guid : {PyNone}, link : {"", "b"},
     title : {"t", "b"}]

\* entry_to_article(entry).id of every entry, in feed order
ArticleIds(ents) == [i \in 1..Len(ents) |-> entry_id(ents[i])]

InitEntry ==
    /\ InitRest
    /\ pc = "idle"
    /\ state = empty_state

EntryFrame ==
    UNCHANGED <<feed, issued, gist, tokens, retry, dates, disk, otherTask, cache,
                watcher, now, health, lastRet, idx, plat, all_ok,
                cursorAtStart, sentAtStart, failed, added, lastPartial,
                markedAtCrash, snapshot, result, ncalls, nalerts>>

\* main.py 515-518: the first tick finds one entry and seeds the ledger
EntrySeed ==
    /\ pc = "idle"
    /\ pc' = "seeded"
    /\ \E e \in Entries :
          /\ entries' = <<e>>
          /\ state' = seed_state_from_entries(ArticleIds(<<e>>), file,
                                              {"discord", "telegram"})
          /\ file' = seed_state_from_entries(ArticleIds(<<e>>), file,
                                             {"discord", "telegram"})
    /\ enabled' = {"discord", "telegram"}
    /\ UNCHANGED backlog
    /\ EntryFrame

\* the site publishes an entry
EntryArrives ==
    /\ pc = "seeded"
    /\ Len(entries) < FeedLen
    /\ \E e \in LaterEntries : entries' = <<e>> \o entries
    /\ UNCHANGED <<pc, state, file, enabled, backlog>>
    /\ EntryFrame

\* main.py 515-520, the next tick: `if not last_seen:` holds for a cursor
\* that is the empty string, and the tick seeds again and returns; otherwise
\* backlog = feed_to_backlog(feed, last_seen), as ids
EntryBacklog ==
    /\ pc = "seeded"
    /\ IF file.last_id = ""
       THEN /\ pc' = "reseeded"
            /\ state' = seed_state_from_entries(ArticleIds(entries), file,
                                                enabled)
            /\ file' = seed_state_from_entries(ArticleIds(entries), file,
                                               enabled)
            /\ UNCHANGED backlog
       ELSE /\ pc' = "computed"
            /\ backlog' = feed_to_backlog(ArticleIds(entries), file.last_id)
            /\ UNCHANGED <<state, file>>
    /\ UNCHANGED <<enabled, entries>>
    /\ EntryFrame

NextEntry == EntrySeed \/ EntryArrives \/ EntryBacklog

EntrySpec == InitEntry /\ [][NextEntry]_vars

\* the entry has a non-empty id, guid or link, or a title that is a string
HasIdentifier(e) ==
    \/ \E v \in {e.id, e.guid, e.link} : v \notin {Missing, PyNone, ""}
    \/ e.title \notin {Missing, PyNone}

\* the first non-empty value among id, guid and link, the title otherwise
Identifier(e) ==
    LET NonEmpty(v) == v \notin {Missing, PyNone, ""}
    IN IF NonEmpty(e.id) THEN e.id
       ELSE IF NonEmpty(e.guid) THEN e.guid
       ELSE IF NonEmpty(e.link) THEN e.link
       ELSE e.title

\* the entry the ledger was seeded on
SeedEntry == entries[Len(entries)]

\* the first entry of the feed that has the identifier of the seed entry
CursorPos ==
    CHOOSE k \in 1..Len(entries) :
       /\ Identifier(entries[k]) = Identifier(SeedEntry)
       /\ \A j \in 1..(k - 1) :
             Identifier(entries[j]) # Identifier(SeedEntry)

\* C39 -- The identifier of an item is the first non-empty value among the
\* id, guid and link of the entry, in that order, and the title of the entry
\* when all three are empty; the cursor comparison in feed_to_backlog and the
\* id stored in the sent lists use this same identifier.  (A cursor that is
\* the empty title is not compared: the next tick seeds again, and what it
\* stores are the identifiers of the entries.)
C39_EntryIdentifier ==
    /\ \A i \in 1..Len(entries) :
          HasIdentifier(entries[i]) =>
              entry_id(entries[i]) = Identifier(entries[i])
    /\ (pc \in {"seeded", "computed"} /\ HasIdentifier(SeedEntry)) =>
          /\ file.last_id = Identifier(SeedEntry)
          /\ \A d \in enabled : file.sent[d] = <<Identifier(SeedEntry)>>
    /\ (pc = "computed" /\ \A i \in 1..Len(entries) : HasIdentifier(entries[i])) =>
          /\ Len(backlog) = CursorPos - 1
          /\ \A i \in 1..Len(backlog) : backlog[i] = Identifier(entries[i])
    /\ (pc = "reseeded" /\ \A i \in 1..Len(entries) : HasIdentifier(entries[i])) =>
          /\ file.last_id = Identifier(entries[1])
          /\ \A d \in enabled : \A x \in SeqToSet(file.sent[d]) :
                \E i \in 1..Len(entries) : x = Identifier(entries[i])

\* the backlog of a feed of three entries was computed: the seed entry has
\* only a link, the newest entry only a title, the one between an id and a
\* link
C39_Witness ==
    /\ pc = "computed"
    /\ Len(entries) = 3
    /\ Len(backlog) = 2
    /\ ~truthy(SeedEntry.id) /\ ~truthy(SeedEntry.guid) /\ truthy(SeedEntry.link)
    /\ \A v \in {entries[1].id, entries[1].guid, entries[1].link} : ~truthy(v)
    /\ entries[1].title = "t"
    /\ truthy(entries[2].id) /\ truthy(entries[2].link)
    /\ entries[2].id # entries[2].link

=============================================================================
